---------------------------- MODULE Spec2Model ----------------------------
(***************************************************************************)
(* A model of wsl-host-start: the Windows-side helper (wstart-host) with   *)
(* its allowlist, and the WSL-side path alias resolution.                  *)
(*                                                                         *)
(* Strings of the program are sequences of one-character strings, so that  *)
(* prefix tests, case folding, suffix trimming and separator handling are  *)
(* computed character by character as the Go code computes them.           *)
(***************************************************************************)
EXTENDS Integers, Sequences, FiniteSets, TLC

(***************************************************************************)
(* String primitives (Go package strings), on sequences of characters.     *)
(***************************************************************************)
UpperLetters ==
  <<"A","B","C","D","E","F","G","H","I","J","K","L","M",
    "N","O","P","Q","R","S","T","U","V","W","X","Y","Z">>

LowerLetters ==
  <<"a","b","c","d","e","f","g","h","i","j","k","l","m",
    "n","o","p","q","r","s","t","u","v","w","x","y","z">>

\* unicode.ToLower and unicode.ToUpper on the ASCII letters, as tables
LowerOf ==
  [c \in {UpperLetters[i] : i \in DOMAIN UpperLetters} |->
     LowerLetters[CHOOSE i \in DOMAIN UpperLetters : UpperLetters[i] = c]]

UpperOf ==
  [c \in {LowerLetters[i] : i \in DOMAIN LowerLetters} |->
     UpperLetters[CHOOSE i \in DOMAIN LowerLetters : LowerLetters[i] = c]]

ToLowerChar(c) == IF c \in DOMAIN LowerOf THEN LowerOf[c] ELSE c

ToUpperChar(c) == IF c \in DOMAIN UpperOf THEN UpperOf[c] ELSE c

\* strings.ToLower
ToLower(s) == [i \in 1..Len(s) |-> ToLowerChar(s[i])]

\* strings.ToUpper
ToUpper(s) == [i \in 1..Len(s) |-> ToUpperChar(s[i])]

\* strings.HasPrefix
HasPrefix(s, p) == Len(p) <= Len(s) /\ SubSeq(s, 1, Len(p)) = p

\* strings.HasSuffix
HasSuffix(s, x) ==
  Len(x) <= Len(s) /\ SubSeq(s, Len(s) - Len(x) + 1, Len(s)) = x

\* strings.TrimSuffix: removes one trailing occurrence of x, if there is one
TrimSuffix(s, x) ==
  IF HasSuffix(s, x) THEN SubSeq(s, 1, Len(s) - Len(x)) ELSE s

\* strings.Contains for a one-character needle
ContainsChar(s, c) == \E i \in 1..Len(s) : s[i] = c

\* strings.EqualFold, on the ASCII alphabet of the model
EqualFold(s, t) == ToLower(s) = ToLower(t)

\* strings.LastIndexAny(s, chars), 1-based, scanning s backwards from
\* index i; 0 when no character of chars occurs (Go returns -1 on a
\* 0-based index)
RECURSIVE lastIndexAnyFrom(_, _, _)
lastIndexAnyFrom(s, chars, i) ==
  IF i = 0 THEN 0
  ELSE IF s[i] \in chars THEN i
  ELSE lastIndexAnyFrom(s, chars, i - 1)

LastIndexAny(s, chars) == lastIndexAnyFrom(s, chars, Len(s))

\* strings.ReplaceAll(s, "/", `\`)
ReplaceSlashes(s) == [i \in 1..Len(s) |-> IF s[i] = "/" THEN "\\" ELSE s[i]]

\* strings.TrimRight(s, `\`): every trailing backslash is removed
RECURSIVE TrimRightBackslash(_)
TrimRightBackslash(s) ==
  IF Len(s) > 0 /\ s[Len(s)] = "\\"
  THEN TrimRightBackslash(SubSeq(s, 1, Len(s) - 1))
  ELSE s

DotExe == <<".","e","x","e">>

Separators == {"/", "\\"}

(***************************************************************************)
(* package allowlist: rule matching.                                       *)
(***************************************************************************)

\* a normalizeProgram that forgets to lower-case
normalizeProgramCaseSensitive(file) ==
  LET i    == LastIndexAny(file, Separators)
      rest == IF i > 0 THEN SubSeq(file, i + 1, Len(file)) ELSE file
  IN  TrimSuffix(rest, DotExe)

\* normalizeProgram: base name after the last / or \, lower-cased, without
\* one trailing ".exe"
normalizeProgram(file) ==
  LET i    == LastIndexAny(file, Separators)
      rest == IF i > 0 THEN SubSeq(file, i + 1, Len(file)) ELSE file
  IN  TrimSuffix(ToLower(rest), DotExe)

\* matchProgram: the rule's program is lower-cased and loses one trailing
\* ".exe"; its directory part, if any, is kept
matchProgram(baseName, ruleProgram) ==
  baseName = TrimSuffix(ToLower(ruleProgram), DotExe)

\* the loop of firstPositionalArg from 1-based index i on
RECURSIVE fpaFrom(_, _)
fpaFrom(args, i) ==
  IF i > Len(args) THEN <<>>
  ELSE IF ~HasPrefix(args[i], <<"-">>) THEN args[i]
  ELSE IF ~ContainsChar(args[i], "=") /\ i + 1 <= Len(args)
       THEN fpaFrom(args, i + 2)
       ELSE fpaFrom(args, i + 1)

\* a scan that skips flags but never the value that follows a flag
RECURSIVE fpaNoValueSkip(_, _)
fpaNoValueSkip(args, i) ==
  IF i > Len(args) THEN <<>>
  ELSE IF ~HasPrefix(args[i], <<"-">>) THEN args[i]
  ELSE fpaNoValueSkip(args, i + 1)

firstPositionalArgNoValueSkip(args) == fpaNoValueSkip(args, 1)

\* firstPositionalArg
firstPositionalArg(args) == fpaFrom(args, 1)

\* a successful return of Check (Go: a nil error)
NoError == [kind |-> "nil"]

\* the three fmt.Errorf results of Check
DeniedNoSubcommand(rule) ==
  [kind |-> "denied: requires a subcommand", program |-> rule.Program,
   subcmd |-> <<>>, allowed |-> rule.Commands]

DeniedSubcommand(rule, subcmd) ==
  [kind |-> "denied: subcommand is not allowed", program |-> rule.Program,
   subcmd |-> subcmd, allowed |-> rule.Commands]

DeniedProgram(baseName) ==
  [kind |-> "denied: program is not in the allowlist", program |-> baseName,
   subcmd |-> <<>>, allowed |-> <<>>]

\* a rule body that compares the subcommand with == instead of EqualFold
checkRuleCaseSensitive(rule, args) ==
  IF Len(rule.Commands) = 0 THEN NoError
  ELSE LET subcmd == firstPositionalArg(args)
       IN  IF subcmd = <<>> THEN DeniedNoSubcommand(rule)
           ELSE IF \E k \in 1..Len(rule.Commands) : subcmd = rule.Commands[k]
                THEN NoError
                ELSE DeniedSubcommand(rule, subcmd)

\* the body of Check's loop for a rule whose program matched
checkRule(rule, args) ==
  IF Len(rule.Commands) = 0 THEN NoError
  ELSE LET subcmd == firstPositionalArg(args)
       IN  IF subcmd = <<>> THEN DeniedNoSubcommand(rule)
           ELSE IF \E k \in 1..Len(rule.Commands) :
                      EqualFold(subcmd, rule.Commands[k])
                THEN NoError
                ELSE DeniedSubcommand(rule, subcmd)

\* a loop that lets the last matching rule decide
checkLastMatch(rules, baseName, args, i) ==
  LET ms == {k \in i..Len(rules) : matchProgram(baseName, rules[k].Program)}
  IN  IF ms = {} THEN DeniedProgram(baseName)
      ELSE checkRule(rules[CHOOSE k \in ms : \A m \in ms : m <= k], args)

\* Check's loop over lr.List.Allow from 1-based index i on: the first rule
\* whose program matches returns, whatever it decides
RECURSIVE checkFrom(_, _, _, _)
checkFrom(rules, baseName, args, i) ==
  IF i > Len(rules) THEN DeniedProgram(baseName)
  ELSE IF ~matchProgram(baseName, rules[i].Program)
       THEN checkFrom(rules, baseName, args, i + 1)
       ELSE checkRule(rules[i], args)

\* a Check that walks the rules whether or not a list was loaded
CheckIgnoringLoaded(lr, file, args) ==
  checkFrom(lr.List, normalizeProgram(file), args, 1)

\* LoadResult.Check
Check(lr, file, args) ==
  IF ~lr.Loaded THEN NoError
  ELSE checkFrom(lr.List, normalizeProgram(file), args, 1)

(***************************************************************************)
(* The helper's directory holds allowlist.toml or not.  toml.DecodeFile    *)
(* fails when the file is missing and when its content is not a TOML       *)
(* document of the expected shape; an empty file decodes to zero rules.    *)
(***************************************************************************)
NoFile == [exists |-> FALSE, decodes |-> FALSE, rules |-> <<>>]

Malformed == [exists |-> TRUE, decodes |-> FALSE, rules |-> <<>>]

PolicyFile(rules) == [exists |-> TRUE, decodes |-> TRUE, rules |-> rules]

\* toml.DecodeFile(path, &list) returns a nil error
DecodeFileOk(file) == file.exists /\ file.decodes

\* allowlist.Load: every decode error is taken for a missing file
Load(files, dir) ==
  IF DecodeFileOk(files[dir])
  THEN [Loaded |-> TRUE, Path |-> dir, List |-> files[dir].rules]
  ELSE [Loaded |-> FALSE, Path |-> dir, List |-> <<>>]

(***************************************************************************)
(* Program names, subcommands and flags of the allowlist's tests and of    *)
(* the specification's scenarios, as character sequences.                  *)
(***************************************************************************)
Str_p4 ==
  <<"p","4">>

Str_P4_EXE ==
  <<"P","4",".","E","X","E">>

Str_p4_exe ==
  <<"p","4",".","e","x","e">>

Str_perforce_p4_exe ==
  <<"C",":","\\","P","4","\\","p","4",".","e","x","e">>

Str_bin_p4 ==
  <<"/","b","i","n","/","p","4">>

Str_notepad ==
  <<"n","o","t","e","p","a","d">>

Str_notepad_exe ==
  <<"n","o","t","e","p","a","d",".","e","x","e">>

Str_git ==
  <<"g","i","t">>

Str_cmd_exe ==
  <<"c","m","d",".","e","x","e">>

Str_edit ==
  <<"e","d","i","t">>

Str_EDIT ==
  <<"E","D","I","T">>

Str_sync ==
  <<"s","y","n","c">>

Str_open ==
  <<"o","p","e","n">>

Str_file_txt ==
  <<"f","i","l","e",".","t","x","t">>

Str_dash_c ==
  <<"-","c">>

Str_myclient ==
  <<"m","y","c","l","i","e","n","t">>

Str_dash_V ==
  <<"-","V">>

Str_port_flag ==
  <<"-","-","p","o","r","t","=","s","s","l",":","1","6","6","6">>

Str_dash_u ==
  <<"-","u">>

Str_diff ==
  <<"d","i","f","f">>

Str_dash_du ==
  <<"-","d","u">>

(***************************************************************************)
(* The helper process wstart-host: one invocation in --launch or --exec    *)
(* mode.  stdin holds what the calling side sent; files is the content of  *)
(* the directories the helper could read allowlist.toml from.              *)
(***************************************************************************)
VARIABLES
  files,      \* directory -> state of its allowlist.toml
  stdin,      \* the invocation: mode flag, and the request on standard input
  pc,         \* position of the helper process
  req,        \* the decoded LaunchRequest
  lr,         \* the LoadResult of allowlist.Load
  checkErr,   \* what Check returned
  calls,      \* Check and the execution primitives, in the order called
  stdout,     \* the LaunchResponses written to standard output
  exit,       \* the helper's exit status, Running while it has none
  child       \* the process the helper launched

helperVars ==
  <<files, stdin, pc, req, lr, checkErr, calls, stdout, exit, child>>

(***************************************************************************)
(* An application of firstPositionalArg to an argument list.               *)
(***************************************************************************)
VARIABLES
  scanArgs,   \* the argument list
  scanPc,     \* "ready" before the call, "done" after it
  scanResult  \* what firstPositionalArg returned

scanVars == <<scanArgs, scanPc, scanResult>>

(***************************************************************************)
(* A pathconv.Converter: NewConverter builds its alias table from the      *)
(* enumerated drives and the configured aliases, applyAlias rewrites a     *)
(* Windows path with it.                                                   *)
(***************************************************************************)
VARIABLES
  drives,         \* the []protocol.DriveInfo handed to NewConverter
  configAliases,  \* the map of configured aliases, letter -> target
  aliases,        \* Converter.aliases
  winPath,        \* the path handed to applyAlias
  convPc,         \* "new", "built" after NewConverter, "applied"
  aliasResult     \* what applyAlias returned

convVars == <<drives, configAliases, aliases, winPath, convPc, aliasResult>>

(***************************************************************************)
(* A call of Converter.ToWindows.                                          *)
(***************************************************************************)
VARIABLES
  twConv,     \* the Converter: its aliases and preferAliases
  twInput,    \* the argument of ToWindows
  twEnv,      \* whether os.Getwd and the wslpath program succeed
  twPc,       \* "ready" before the call, "done" after it
  twResult    \* the returned path and error, and the facilities called

winVars == <<twConv, twInput, twEnv, twPc, twResult>>

(***************************************************************************)
(* A drivecache.Cache, its file, and the clock.                            *)
(***************************************************************************)
VARIABLES
  cacheFile,  \* the content of drives.json
  cacheTTL,   \* Cache.ttl
  now,        \* the wall clock, in minutes
  cacheGot,   \* the last call of Get or Refresh: what it saw and returned
  persisted   \* the snapshot the last Refresh wrote, if the file still holds it

cacheVars == <<cacheFile, cacheTTL, now, cacheGot, persisted>>

(***************************************************************************)
(* One call of launch.Run.                                                 *)
(***************************************************************************)
VARIABLES
  runOpts,     \* *Options
  runVersion,  \* the package variable Version
  runPc,       \* the step Run is at
  runHelper,   \* the invocations of the helper so far, by their flag
  runHostVersion, \* what checkHelperVersion learnt from the helper
  runCfg,      \* cfg
  runCache,    \* what cache.Get saw and returned
  runDrives,   \* drives
  runConv,     \* conv
  runTarget,   \* winTarget
  runWorkDir,  \* winWorkDir
  runReq,      \* req
  runDiag,     \* what Run wrote to stderr
  runStdout,   \* what Run wrote to stdout
  runInvoked,  \* what became of the helper process Run started for the launch
  runOut       \* what Run returned

runVars ==
  <<runOpts, runVersion, runPc, runHelper, runHostVersion, runCfg, runCache, runDrives, runConv,
    runTarget, runWorkDir, runReq, runDiag, runStdout, runInvoked, runOut>>

(***************************************************************************)
(* The wstart process around Run.                                          *)
(***************************************************************************)
VARIABLES
  wstartExit   \* the exit status of the wstart process, none while it runs

mainVars == <<wstartExit>>

(***************************************************************************)
(* Several invocations of wstart sharing the cache file.                   *)
(***************************************************************************)
VARIABLES
  raceFile,     \* drives.json: whether it exists, and its content
  raceProc,     \* for each invocation, where its cache.Get is and what it holds
  raceWritten   \* the snapshots written to the file in full so far

raceVars == <<raceFile, raceProc, raceWritten>>

vars ==
  <<helperVars, scanVars, convVars, winVars, cacheVars, runVars, mainVars, raceVars>>

\* what the helper's steps leave alone
nonHelperVars == <<scanVars, convVars, winVars, cacheVars, runVars, mainVars, raceVars>>

nonScanVars == <<helperVars, convVars, winVars, cacheVars, runVars, mainVars, raceVars>>

nonConvVars == <<helperVars, scanVars, winVars, cacheVars, runVars, mainVars, raceVars>>

nonWinVars == <<helperVars, scanVars, convVars, cacheVars, runVars, mainVars, raceVars>>

nonCacheVars == <<helperVars, scanVars, convVars, winVars, runVars, mainVars, raceVars>>

\* what Run leaves alone besides the cache file
nonRunVars == <<helperVars, scanVars, convVars, winVars, mainVars, raceVars>>

nonRaceVars == <<helperVars, scanVars, convVars, winVars, cacheVars, runVars, mainVars>>

\* the directory of the helper's executable, and another directory
HelperDir == "C:\\Users\\u\\AppData\\Local\\wstart"

OtherDir == "C:\\work"

Dirs == {HelperDir, OtherDir}

\* exit holds no status while the helper runs
Running == <<>>

NoRequest ==
  [File |-> <<>>, Verb |-> "", Args |-> <<>>, WorkDir |-> "", Show |-> "",
   Wait |-> FALSE, EnvVars |-> <<>>]

NoLoadResult == [Loaded |-> FALSE, Path |-> "", List |-> <<>>]

NotChecked == [kind |-> "not checked"]

NoChild == [state |-> "none", code |-> 0, env |-> <<>>, handle |-> 0]

\* protocol.LaunchResponse{} with its zero values
EmptyResponse == [exitCode |-> 0, pid |-> 0, error |-> "", errCode |-> 0]

\* SE_ERR_ACCESSDENIED as runLaunch writes it into ErrCode on a denial
DeniedErrCode == 5

\* SE_ERR_ACCESSDENIED as runExec passes it to os.Exit on a denial
DeniedExitStatus == 5

\* codes ShellExecuteExW leaves in hInstApp when it fails (SE_ERR_FNF,
\* SE_ERR_ACCESSDENIED)
HInstAppCodes == {2, 5}

\* hProcess after ShellExecuteExW succeeded: 0 when no new process was
\* started (the document went to a running application), else a handle
ProcessHandles == {0, 1234}

\* exit statuses of a launched process
ExitCodes == {0, 1, 5, 256}

(***************************************************************************)
(* Inputs: allowlist files, and invocations of the helper.                 *)
(***************************************************************************)
MaxRules == 2

SeqsUpTo(S, n) == UNION {[1..k -> S] : k \in 0..n}

Rule(program, commands) == [Program |-> program, Commands |-> commands]

RuleSet ==
  { Rule(Str_p4, <<Str_edit>>),
    Rule(Str_p4, <<>>),
    Rule(Str_p4, <<Str_edit, Str_sync>>),
    Rule(Str_notepad_exe, <<>>) }

AllowlistFiles ==
  {NoFile, Malformed} \cup {PolicyFile(rs) : rs \in SeqsUpTo(RuleSet, MaxRules)}

RequestFiles ==
  { Str_p4, Str_P4_EXE, Str_perforce_p4_exe, Str_notepad, Str_git }

\* argument lists of the tests and scenarios: with and without a
\* subcommand, in either letter case, behind flags with and without value
ArgLists ==
  { <<>>,
    <<Str_edit>>,
    <<Str_EDIT>>,
    <<Str_sync>>,
    <<Str_dash_c, Str_edit>>,
    <<Str_open, Str_file_txt>>,
    <<Str_EDIT, Str_file_txt>>,
    <<Str_dash_c, Str_myclient, Str_edit, Str_file_txt>>,
    <<Str_dash_V>>,
    <<Str_port_flag, Str_sync>> }

NoEnv == <<>>

SomeEnv == ("P4PORT" :> "ssl:host:1666")

\* the fields of a LaunchRequest other than File and Args
RequestRest ==
  { [Verb |-> "open", WorkDir |-> "", Show |-> "normal", Wait |-> FALSE,
     EnvVars |-> NoEnv],
    [Verb |-> "runas", WorkDir |-> OtherDir, Show |-> "hidden", Wait |-> TRUE,
     EnvVars |-> SomeEnv] }

LaunchRequest(file, args, rest) ==
  [File |-> file, Verb |-> rest.Verb, Args |-> args, WorkDir |-> rest.WorkDir,
   Show |-> rest.Show, Wait |-> rest.Wait, EnvVars |-> rest.EnvVars]

Requests ==
  { LaunchRequest(f, a, r) : f \in RequestFiles, a \in ArgLists, r \in RequestRest }

Modes == {"launch", "exec"}

\* standard input holds a LaunchRequest, or bytes json.Decode rejects
Invocations ==
  { [mode |-> m, decodes |-> TRUE, req |-> r] : m \in Modes, r \in Requests }
  \cup { [mode |-> m, decodes |-> FALSE, req |-> NoRequest] : m \in Modes }

HelperInit ==
  /\ files \in [Dirs -> AllowlistFiles]
  /\ files[OtherDir] = NoFile
  /\ stdin \in Invocations
  /\ pc = "start"
  /\ req = NoRequest
  /\ lr = NoLoadResult
  /\ checkErr = NotChecked
  /\ calls = <<>>
  /\ stdout = <<>>
  /\ exit = Running
  /\ child = NoChild

(***************************************************************************)
(* The helper's steps: runLaunch and runExec of cmd/wstart-host/main.go,   *)
(* with shellexec.Execute and shellexec.ExecuteConsole.                    *)
(***************************************************************************)

\* runLaunch encodes a response on standard output and returns nil: main
\* returns and the process exits with status 0
Respond(resp) ==
  /\ stdout' = Append(stdout, resp)
  /\ exit' = <<0>>
  /\ pc' = "done"

\* fatal(err) in --launch mode, os.Exit(1) in --exec mode
Fail ==
  /\ exit' = <<1>>
  /\ pc' = "done"

\* json.NewDecoder(os.Stdin).Decode(&req)
HelperDecode ==
  /\ pc = "start"
  /\ IF stdin.decodes
     THEN /\ req' = stdin.req
          /\ pc' = "decoded"
          /\ UNCHANGED exit
     ELSE /\ Fail
          /\ UNCHANGED req
  /\ UNCHANGED <<files, stdin, lr, checkErr, calls, stdout, child>>
  /\ UNCHANGED nonHelperVars

\* filepath.Dir(exePath) for the path os.Executable returned: no field of
\* the request takes part
AllowlistDirFromRequest(r) ==
  IF r.WorkDir \in Dirs THEN r.WorkDir ELSE HelperDir

AllowlistDir(r) == HelperDir

\* os.Executable, then allowlist.Load, which never returns an error
HelperLoad ==
  /\ pc = "decoded"
  /\ \E exeOk \in BOOLEAN :
       IF exeOk
       THEN /\ lr' = Load(files, AllowlistDir(req))
            /\ pc' = "loaded"
            /\ UNCHANGED exit
       ELSE /\ Fail
            /\ UNCHANGED lr
  /\ UNCHANGED <<files, stdin, req, checkErr, calls, stdout, child>>
  /\ UNCHANGED nonHelperVars

\* a denial reported without the access-denied code
DenialResponseNoCode(err) ==
  [EmptyResponse EXCEPT !.error = err.kind]

\* the LaunchResponse of runLaunch for a denial
DenialResponse(err) ==
  [EmptyResponse EXCEPT !.error = err.kind, !.errCode = DeniedErrCode]

\* what the helper decides for request r with the directories as they
\* are: Load from the executable's directory, then Check on File and Args
PolicyDecision(fs, r) == Check(Load(fs, AllowlistDir(r)), r.File, r.Args)

\* a check step that reports a denial and goes on to execute
HelperCheckNoReturn ==
  /\ pc = "loaded"
  /\ calls' = Append(calls, "Check")
  /\ checkErr' = Check(lr, req.File, req.Args)
  /\ pc' = "permitted"
  /\ stdout' = IF checkErr' # NoError /\ stdin.mode = "launch"
               THEN Append(stdout, DenialResponse(checkErr'))
               ELSE stdout
  /\ UNCHANGED <<files, stdin, req, lr, child, exit>>
  /\ UNCHANGED nonHelperVars

\* al.Check(req.File, req.Args) and the branch on its error
HelperCheck ==
  /\ pc = "loaded"
  /\ calls' = Append(calls, "Check")
  /\ checkErr' = Check(lr, req.File, req.Args)
  /\ IF checkErr' # NoError
     THEN IF stdin.mode = "launch"
          THEN Respond(DenialResponse(checkErr'))
          ELSE /\ exit' = <<DeniedExitStatus>>
               /\ pc' = "done"
               /\ UNCHANGED stdout
     ELSE /\ pc' = "permitted"
          /\ UNCHANGED <<stdout, exit>>
  /\ UNCHANGED <<files, stdin, req, lr, child>>
  /\ UNCHANGED nonHelperVars

\* shellexec.Execute up to the wait: ShellExecuteExW fails, or succeeds
\* with or without a process handle.  The launched process inherits the
\* helper's environment; req.EnvVars is not read.
HelperExecute ==
  /\ pc = "permitted"
  /\ stdin.mode = "launch"
  /\ calls' = Append(calls, "Execute")
  /\ \E ret \in BOOLEAN, hInstApp \in HInstAppCodes, hProcess \in ProcessHandles :
       IF ~ret
       THEN /\ Respond([EmptyResponse EXCEPT !.error = "ShellExecuteEx failed",
                                             !.errCode = hInstApp])
            /\ UNCHANGED child
       ELSE IF hProcess = 0
       THEN /\ Respond(EmptyResponse)
            /\ UNCHANGED child
       ELSE /\ child' = [state |-> "running", code |-> 0, env |-> NoEnv,
                         handle |-> hProcess]
            /\ IF req.Wait
               THEN /\ pc' = "waiting"
                    /\ UNCHANGED <<stdout, exit>>
               ELSE Respond([EmptyResponse EXCEPT !.pid = hProcess])
  /\ UNCHANGED <<files, stdin, req, lr, checkErr>>
  /\ UNCHANGED nonHelperVars

\* the launched process terminates
ChildExit ==
  /\ child.state = "running"
  /\ \E code \in ExitCodes :
       child' = [child EXCEPT !.state = "exited", !.code = code]
  /\ UNCHANGED <<files, stdin, pc, req, lr, checkErr, calls, stdout, exit>>
  /\ UNCHANGED nonHelperVars

\* shellexec.Execute with req.Wait: WaitForSingleObject returns an error,
\* or returns once the process has terminated, and GetExitCodeProcess
\* reads its status or fails
HelperWait ==
  /\ pc = "waiting"
  /\ \/ Respond([EmptyResponse EXCEPT !.pid = child.handle,
                                      !.error = "WaitForSingleObject failed"])
     \/ /\ child.state = "exited"
        /\ \E getOk \in BOOLEAN :
             Respond([EmptyResponse EXCEPT
                        !.pid = child.handle,
                        !.exitCode = IF getOk THEN child.code ELSE 0])
  /\ UNCHANGED <<files, stdin, req, lr, checkErr, calls, child>>
  /\ UNCHANGED nonHelperVars

\* shellexec.ExecuteConsole up to cmd.Run's wait: the process cannot be
\* started, or runs with req.EnvVars added to its environment
HelperExecuteConsole ==
  /\ pc = "permitted"
  /\ stdin.mode = "exec"
  /\ calls' = Append(calls, "ExecuteConsole")
  /\ \E started \in BOOLEAN :
       IF started
       THEN /\ child' = [state |-> "running", code |-> 0, env |-> req.EnvVars,
                         handle |-> 0]
            /\ pc' = "console"
            /\ UNCHANGED exit
       ELSE /\ Fail
            /\ UNCHANGED child
  /\ UNCHANGED <<files, stdin, req, lr, checkErr, stdout>>
  /\ UNCHANGED nonHelperVars

\* cmd.Run returns when the process has terminated; runExec exits with its
\* exit code
HelperConsoleDone ==
  /\ pc = "console"
  /\ child.state = "exited"
  /\ exit' = <<child.code>>
  /\ pc' = "done"
  /\ UNCHANGED <<files, stdin, req, lr, checkErr, calls, stdout, child>>
  /\ UNCHANGED nonHelperVars

HelperNext ==
  \/ HelperDecode
  \/ HelperLoad
  \/ HelperCheck
  \/ HelperExecute
  \/ ChildExit
  \/ HelperWait
  \/ HelperExecuteConsole
  \/ HelperConsoleDone

\* no helper invocation takes place
HelperIdle ==
  /\ files = [d \in Dirs |-> NoFile]
  /\ stdin = [mode |-> "launch", decodes |-> FALSE, req |-> NoRequest]
  /\ pc = "idle"
  /\ req = NoRequest
  /\ lr = NoLoadResult
  /\ checkErr = NotChecked
  /\ calls = <<>>
  /\ stdout = <<>>
  /\ exit = Running
  /\ child = NoChild

(***************************************************************************)
(* firstPositionalArg applied to argument lists.                           *)
(***************************************************************************)
MaxScan == 4

Str_empty == <<>>

Str_dash_V_eq == <<"-","V","=">>

ScanTokens ==
  { Str_edit, Str_file_txt, Str_dash_c, Str_dash_V_eq, Str_port_flag, Str_empty }

\* the argument lists of TestFirstPositionalArg
TestArgs ==
  { <<Str_edit, Str_file_txt>>,
    <<Str_dash_c, Str_myclient, Str_edit, Str_file_txt>>,
    <<Str_port_flag, Str_sync>>,
    <<Str_dash_V>>,
    <<>>,
    <<Str_dash_u, Str_myclient, Str_dash_c, Str_myclient, Str_diff, Str_dash_du>> }

ScanIdle ==
  /\ scanArgs = <<>>
  /\ scanPc = "idle"
  /\ scanResult = <<>>

ScanInit ==
  /\ scanArgs \in SeqsUpTo(ScanTokens, MaxScan) \cup TestArgs
  /\ scanPc = "ready"
  /\ scanResult = <<>>

ScanFirstPositionalArg ==
  /\ scanPc = "ready"
  /\ scanResult' = firstPositionalArg(scanArgs)
  /\ scanPc' = "done"
  /\ UNCHANGED <<scanArgs, nonScanVars>>

(***************************************************************************)
(* package pathconv: NewConverter and Converter.applyAlias.                *)
(***************************************************************************)
DriveSubst == "subst"

DriveFixed == "fixed"

DriveInfo(letter, type, target) ==
  [Letter |-> letter, Type |-> type, Target |-> target]

Alias(letter, target) == [Letter |-> letter, Target |-> target]

\* NewConverter's first loop: the subst drives with a target, in order
RECURSIVE substAliases(_)
substAliases(ds) ==
  IF ds = <<>> THEN <<>>
  ELSE (IF Head(ds).Type = DriveSubst /\ Head(ds).Target # <<>>
        THEN <<Alias(Head(ds).Letter, Head(ds).Target)>>
        ELSE <<>>) \o substAliases(Tail(ds))

\* a merge that appends every configured alias
RECURSIVE mergeConfigAppend(_, _, _)
mergeConfigAppend(as, cfg, order) ==
  IF order = <<>> THEN as
  ELSE mergeConfigAppend(Append(as, Alias(ToUpper(Head(order)), cfg[Head(order)])),
                         cfg, Tail(order))

\* NewConverter's second loop for the map keys in iteration order: the
\* upper-cased letter replaces the target of the first alias with that
\* letter, or is appended
RECURSIVE mergeConfig(_, _, _)
mergeConfig(as, cfg, order) ==
  IF order = <<>> THEN as
  ELSE LET letter == ToUpper(Head(order))
           target == cfg[Head(order)]
           found  == {i \in DOMAIN as : EqualFold(as[i].Letter, letter)}
       IN  IF found # {}
           THEN mergeConfig(
                  [as EXCEPT ![CHOOSE i \in found : \A j \in found : i <= j].Target
                               = target],
                  cfg, Tail(order))
           ELSE mergeConfig(Append(as, Alias(letter, target)), cfg, Tail(order))

\* the orders in which range may deliver the keys of a Go map
KeyOrders(cfg) ==
  {o \in [1..Cardinality(DOMAIN cfg) -> DOMAIN cfg] :
     \A i, j \in DOMAIN o : i # j => o[i] # o[j]}

\* the alias target as applyAlias compares it
normalizeTarget(target) == TrimRightBackslash(ToLower(ReplaceSlashes(target)))

\* a test of the prefix alone
matchesAliasPrefixOnly(normalized, target) == HasPrefix(normalized, target)

\* applyAlias's two tests: prefix, and path boundary after it
matchesAlias(normalized, target) ==
  /\ HasPrefix(normalized, target)
  /\ LET rest == SubSeq(normalized, Len(target) + 1, Len(normalized))
     IN  rest = <<>> \/ HasPrefix(rest, <<"\\">>)

NoBest == [len |-> 0, letter |-> <<>>, target |-> <<>>]

\* a loop body that keeps the first alias that matches
aliasStepFirstMatch(best, a, normalized) ==
  LET target == normalizeTarget(a.Target)
  IN  IF matchesAlias(normalized, target) /\ best.len = 0 /\ Len(target) > 0
      THEN [len |-> Len(target), letter |-> a.Letter, target |-> target]
      ELSE best

\* the body of applyAlias's loop for alias a
aliasStep(best, a, normalized) ==
  LET target == normalizeTarget(a.Target)
  IN  IF matchesAlias(normalized, target) /\ Len(target) > best.len
      THEN [len |-> Len(target), letter |-> a.Letter, target |-> target]
      ELSE best

\* applyAlias's loop from alias i on
RECURSIVE bestAlias(_, _, _, _)
bestAlias(as, normalized, i, best) ==
  IF i > Len(as) THEN best
  ELSE bestAlias(as, normalized, i + 1, aliasStep(best, as[i], normalized))

\* a resolution that compares the path as written, without folding its case
applyAliasCaseSensitive(as, path) ==
  LET normalized == ReplaceSlashes(path)
      best       == bestAlias(as, normalized, 1, NoBest)
  IN  IF best.len = 0 THEN path
      ELSE ToUpper(best.letter) \o <<":">>
             \o ReplaceSlashes(SubSeq(path, Len(best.target) + 1, Len(path)))

\* a resolution that rewrites the path even when no alias was kept
applyAliasNoMatchGuard(as, path) ==
  LET normalized == ToLower(ReplaceSlashes(path))
      best       == bestAlias(as, normalized, 1, NoBest)
  IN  ToUpper(best.letter) \o <<":">>
        \o ReplaceSlashes(SubSeq(path, Len(best.target) + 1, Len(path)))

\* a resolution that takes the remainder from the folded path
applyAliasFoldedRemainder(as, path) ==
  LET normalized == ToLower(ReplaceSlashes(path))
      best       == bestAlias(as, normalized, 1, NoBest)
  IN  IF best.len = 0 THEN path
      ELSE ToUpper(best.letter) \o <<":">>
             \o SubSeq(normalized, Len(best.target) + 1, Len(normalized))

\* Converter.applyAlias
applyAlias(as, path) ==
  LET normalized == ToLower(ReplaceSlashes(path))
      best       == bestAlias(as, normalized, 1, NoBest)
  IN  IF best.len = 0 THEN path
      ELSE ToUpper(best.letter) \o <<":">>
             \o ReplaceSlashes(SubSeq(path, Len(best.target) + 1, Len(path)))

(***************************************************************************)
(* Specifications.                                                         *)
(***************************************************************************)
ConvIdle ==
  /\ drives = <<>>
  /\ configAliases = <<>>
  /\ aliases = <<>>
  /\ winPath = <<>>
  /\ convPc = "idle"
  /\ aliasResult = <<>>

\* strings used by the converter's inputs
Str_C_ws ==
  <<"C",":","\\","w","s">>

Str_C_ws_sep ==
  <<"C",":","\\","w","s","\\">>

Str_c_ws_ws_slash ==
  <<"c",":","/","w","s","/","w","s">>

Str_C_ws_ws2 ==
  <<"C",":","\\","w","s","\\","w","s","2">>

Str_C_WS_WS_sep ==
  <<"C",":","\\","W","S","\\","W","S","\\">>

Str_C_root ==
  <<"C",":">>

Str_C_root_sep ==
  <<"C",":","\\">>

Str_sep ==
  <<"\\">>

Str_ws ==
  <<"w","s">>

Str_ws2 ==
  <<"w","s","2">>

Str_P ==
  <<"P">>

Str_p_lower ==
  <<"p">>

Str_q_lower ==
  <<"q">>

Str_r_lower ==
  <<"r">>

Str_C ==
  <<"C">>

MaxDepth == 2

Names == {Str_ws, Str_ws2}

\* "C:" followed by the named directories, each led by sep
RECURSIVE joinPath(_, _)
joinPath(names, sep) ==
  IF names = <<>> THEN <<>>
  ELSE <<sep>> \o Head(names) \o joinPath(Tail(names), sep)

BuiltPaths ==
  {Str_C_root \o joinPath(names, sep) \o trail :
     names \in SeqsUpTo(Names, MaxDepth),
     sep \in Separators,
     trail \in {<<>>, <<"\\">>}}

\* paths below a nested target, as in TestApplyAlias
Str_C_ws_ws2_ws ==
  <<"C",":","\\","w","s","\\","w","s","2","\\","w","s">>

Str_c_ws_ws2_ws_slash ==
  <<"c",":","/","w","s","/","w","s","2","/","w","s">>

TestPaths == {Str_C_ws_ws2_ws, Str_c_ws_ws2_ws_slash}

\* the Windows paths handed to applyAlias
WinPaths ==
  BuiltPaths \cup {ToLower(q) : q \in BuiltPaths} \cup {ToUpper(q) : q \in BuiltPaths}
    \cup TestPaths

SubstTargets == {<<>>, Str_C_ws, Str_C_ws_sep, Str_C_ws_ws2, Str_C_WS_WS_sep}

\* a target on the drive of another alias
Str_P_ws2 ==
  <<"P",":","\\","w","s","2">>

ConfigTargets ==
  {Str_C_ws, Str_C_ws_sep, Str_c_ws_ws_slash, Str_C_ws_ws2, Str_C_WS_WS_sep,
   Str_C_root, Str_C_root_sep, Str_sep, Str_P_ws2}

\* what detection reports: the fixed drive C and possibly a subst drive P
DriveLists ==
  {<<DriveInfo(Str_C, DriveFixed, <<>>)>>}
    \cup {<<DriveInfo(Str_C, DriveFixed, <<>>), DriveInfo(Str_P, DriveSubst, tg)>> :
            tg \in SubstTargets}

\* [drives.aliases] of the configuration
ConfigMaps ==
  LET qs == {<<>>} \cup {Str_q_lower :> tg : tg \in ConfigTargets}
      rs == {<<>>} \cup {Str_r_lower :> tg : tg \in {Str_C_ws, Str_c_ws_ws_slash, Str_sep}}
      ps == {<<>>} \cup {Str_p_lower :> Str_C_ws_ws2}
  IN  {a @@ b @@ c : a \in qs, b \in rs, c \in ps}
        \cup {(Str_p_lower :> Str_C_ws_ws2) @@ (Str_P :> Str_C_ws)}

ConvInit ==
  /\ drives \in DriveLists
  /\ configAliases \in ConfigMaps
  /\ aliases = <<>>
  /\ winPath = <<>>
  /\ convPc = "new"
  /\ aliasResult = <<>>

\* pathconv.NewConverter(drives, configAliases)
ConvNewConverter ==
  /\ convPc = "new"
  /\ \E order \in KeyOrders(configAliases) :
       aliases' = mergeConfig(substAliases(drives), configAliases, order)
  /\ convPc' = "built"
  /\ UNCHANGED <<drives, configAliases, winPath, aliasResult>>
  /\ UNCHANGED nonConvVars

\* c.applyAlias(winPath)
ConvApplyAlias ==
  /\ convPc = "built"
  /\ \E path \in WinPaths :
       /\ winPath' = path
       /\ aliasResult' = applyAlias(aliases, path)
  /\ convPc' = "applied"
  /\ UNCHANGED <<drives, configAliases, aliases>>
  /\ UNCHANGED nonConvVars

(***************************************************************************)
(* Converter.ToWindows with filepath.Abs and the wslpath program.          *)
(***************************************************************************)
Str_http ==
  <<"h","t","t","p",":","/","/">>

Str_https ==
  <<"h","t","t","p","s",":","/","/">>

Str_url_http ==
  <<"h","t","t","p",":","/","/","e",".","x">>

Str_url_https ==
  <<"h","t","t","p","s",":","/","/","e",".","x","/","s","?","q","=","t">>

Str_url_upper ==
  <<"H","T","T","P",":","/","/","E",".","X">>

Str_ftp_url ==
  <<"f","t","p",":","/","/","e",".","x">>

Str_cmd ==
  <<"c","m","d">>

Str_dot ==
  <<".">>

Str_hidden ==
  <<".","h","i","d","d","e","n">>

Str_script ==
  <<".","/","s",".","s","h">>

Str_parent_tool ==
  <<".",".","/","b","i","n","/","t","o","o","l">>

Str_usr_bin_p4 ==
  <<"/","u","s","r","/","b","i","n","/","p","4">>

Str_rel_file ==
  <<"t","o","/","f","i","l","e">>

Str_mnt_c_ws ==
  <<"/","m","n","t","/","c","/","w","s">>

Str_mnt_c_ws_ws2 ==
  <<"/","m","n","t","/","c","/","w","s","/","w","s","2","/","f",".","t","x","t">>

Str_mnt ==
  <<"m","n","t">>

Str_dotdot ==
  <<".",".">>

Cwd ==
  <<"/","m","n","t","/","c","/","w","s","/","w","s">>

DistroRoot ==
  <<"\\","\\","w","s","l",".","l","o","c","a","l","h","o","s","t","\\","D">>

\* the test of ToWindows and IsBareCommand for a URL, on the string as written
isURLCaseSensitive(s) == HasPrefix(s, Str_http) \/ HasPrefix(s, Str_https)

\* the test of ToWindows and IsBareCommand for a URL
isURL(s) ==
  LET lower == ToLower(s)
  IN  HasPrefix(lower, Str_http) \/ HasPrefix(lower, Str_https)

\* pathconv.IsBareCommand
IsBareCommand(s) ==
  /\ \A i \in DOMAIN s : s[i] \notin Separators
  /\ ~HasPrefix(s, Str_dot)
  /\ ~isURL(s)

\* filepath.IsAbs on Linux
IsAbs(s) == HasPrefix(s, <<"/">>)

\* the components of s between slashes
RECURSIVE splitFrom(_, _, _)
splitFrom(s, i, cur) ==
  IF i > Len(s) THEN <<cur>>
  ELSE IF s[i] = "/" THEN <<cur>> \o splitFrom(s, i + 1, <<>>)
  ELSE splitFrom(s, i + 1, Append(cur, s[i]))

\* filepath.Clean on the components of a rooted path
RECURSIVE cleanFrom(_, _)
cleanFrom(comps, kept) ==
  IF comps = <<>> THEN kept
  ELSE IF Head(comps) \in {<<>>, Str_dot} THEN cleanFrom(Tail(comps), kept)
  ELSE IF Head(comps) = Str_dotdot
  THEN cleanFrom(Tail(comps),
                 IF kept = <<>> THEN kept ELSE SubSeq(kept, 1, Len(kept) - 1))
  ELSE cleanFrom(Tail(comps), Append(kept, Head(comps)))

RECURSIVE joinWith(_, _)
joinWith(comps, sep) ==
  IF comps = <<>> THEN <<>>
  ELSE <<sep>> \o Head(comps) \o joinWith(Tail(comps), sep)

\* filepath.Clean of a rooted path
Clean(s) ==
  LET kept == cleanFrom(splitFrom(s, 1, <<>>), <<>>)
  IN  IF kept = <<>> THEN <<"/">> ELSE joinWith(kept, "/")

\* filepath.Abs of a relative path when os.Getwd succeeds
Abs(s) == Clean(Cwd \o <<"/">> \o s)

WhiteSpace == {" ", "\n", "\t", "\r"}

\* strings.TrimSpace
RECURSIVE TrimSpace(_)
TrimSpace(s) ==
  IF s = <<>> THEN s
  ELSE IF Head(s) \in WhiteSpace THEN TrimSpace(Tail(s))
  ELSE IF s[Len(s)] \in WhiteSpace THEN TrimSpace(SubSeq(s, 1, Len(s) - 1))
  ELSE s

\* what `wslpath -w` prints for a rooted path: a drive path for what lies
\* under /mnt/<letter>, a UNC path into the distribution for the rest
wslpathOutput(s) ==
  LET comps == cleanFrom(splitFrom(s, 1, <<>>), <<>>)
  IN  (IF Len(comps) >= 2 /\ comps[1] = Str_mnt /\ Len(comps[2]) = 1
       THEN ToUpper(comps[2]) \o <<":">>
              \o (IF Len(comps) = 2 THEN <<"\\">>
                  ELSE joinWith(SubSeq(comps, 3, Len(comps)), "\\"))
       ELSE DistroRoot \o ReplaceSlashes(s))
      \o <<"\n">>

\* runWslpath when the program succeeds
runWslpath(s) == TrimSpace(wslpathOutput(s))

ToWindowsResult(out, err, called) == [out |-> out, err |-> err, calls |-> called]

\* Converter.ToWindows: env tells whether os.Getwd and wslpath succeed
ToWindows(conv, input, env) ==
  IF isURL(input) \/ IsBareCommand(input)
  THEN ToWindowsResult(input, "", <<>>)
  ELSE
    LET relative == ~IsAbs(input)
        absCall  == IF relative THEN <<"Abs">> ELSE <<>>
    IN  IF relative /\ ~env.getwd
        THEN ToWindowsResult(<<>>, "abs", absCall)
        ELSE IF ~env.wslpath
        THEN ToWindowsResult(<<>>, "wslpath", absCall \o <<"wslpath">>)
        ELSE
          LET w == runWslpath(IF relative THEN Abs(input) ELSE input)
          IN  IF conv.preferAliases
              THEN ToWindowsResult(applyAlias(conv.aliases, w), "",
                                   absCall \o <<"wslpath", "applyAlias">>)
              ELSE ToWindowsResult(w, "", absCall \o <<"wslpath">>)

\* the inputs of TestIsBareCommand and of the passthrough tests, and paths
\* under /mnt/c
WslInputs ==
  { Str_p4, Str_notepad_exe, Str_cmd, Str_git, Str_empty,
    Str_url_http, Str_url_https, Str_url_upper, Str_ftp_url,
    Str_script, Str_parent_tool, Str_usr_bin_p4, Str_C_ws, Str_rel_file,
    Str_dot, Str_hidden, Str_mnt_c_ws, Str_mnt_c_ws_ws2 }

Converters ==
  [ aliases : { <<>>,
                <<Alias(Str_P, Str_C_ws)>>,
                <<Alias(Str_P, Str_C_ws), Alias(<<"Q">>, Str_C_ws_ws2)>>,
                <<Alias(<<"Q">>, Str_C_root)>> },
    preferAliases : BOOLEAN ]

Environments == [getwd : BOOLEAN, wslpath : BOOLEAN]

NoResult == ToWindowsResult(<<>>, "not called", <<>>)

WinIdle ==
  /\ twConv = [aliases |-> <<>>, preferAliases |-> FALSE]
  /\ twInput = <<>>
  /\ twEnv = [getwd |-> FALSE, wslpath |-> FALSE]
  /\ twPc = "idle"
  /\ twResult = NoResult

WinInit ==
  /\ twConv \in Converters
  /\ twInput \in WslInputs
  /\ twEnv \in Environments
  /\ twPc = "ready"
  /\ twResult = NoResult

\* conv.ToWindows(input)
WinToWindows ==
  /\ twPc = "ready"
  /\ twResult' = ToWindows(twConv, twInput, twEnv)
  /\ twPc' = "done"
  /\ UNCHANGED <<twConv, twInput, twEnv, nonWinVars>>

(***************************************************************************)
(* package drivecache: New, Get, Refresh, load and save.  Times are in     *)
(* minutes.                                                                *)
(***************************************************************************)
\* defaultTTL = 1 * time.Hour
DefaultTTL == 60

HalfTTL == DefaultTTL \div 2

MaxTicks == 3

\* drivecache.New: a ttl of 0 stands for defaultTTL
New(ttl) == IF ttl = 0 THEN DefaultTTL ELSE ttl

\* what os.ReadFile and json.Unmarshal find in drives.json
FileMissing == [kind |-> "missing"]

FileUnparsable == [kind |-> "unparsable"]

\* json.MarshalIndent(cacheFile{Timestamp, Data}) as save writes it
Snapshot(timestamp, data) ==
  [kind |-> "snapshot", timestamp |-> timestamp, data |-> data]

\* two answers of the helper to --drives
DrivesNoSubst == <<DriveInfo(Str_C, DriveFixed, <<>>)>>

DrivesWithSubst ==
  <<DriveInfo(Str_C, DriveFixed, <<>>), DriveInfo(Str_P, DriveSubst, Str_C_ws)>>

DriveData == {DrivesNoSubst, DrivesWithSubst}

NoData == <<>>

\* the helper run with --drives: it cannot be run or exits non-zero, its
\* output is not the JSON of a DrivesResponse, or it is
HelperDrivesOutcomes ==
  {[kind |-> "failed", data |-> NoData], [kind |-> "unparsable", data |-> NoData]}
    \cup {[kind |-> "ok", data |-> d] : d \in DriveData}

\* save: MkdirAll and WriteFile succeed, MkdirAll fails, or WriteFile fails
\* after it truncated the file
SaveOutcomes == {"saved", "not written", "truncated"}

\* the test of load on the snapshot's age: expired from ttl on
cacheExpiredAtTTL(age, ttl) == age >= ttl

\* the test of load on the snapshot's age
cacheExpired(age, ttl) == age > ttl

\* Cache.load: the data, or an error
load(file, clock, ttl) ==
  IF file.kind = "missing" THEN [data |-> NoData, err |-> "read"]
  ELSE IF file.kind = "unparsable" THEN [data |-> NoData, err |-> "unmarshal"]
  ELSE IF cacheExpired(clock - file.timestamp, ttl)
  THEN [data |-> NoData, err |-> "cache expired"]
  ELSE [data |-> file.data, err |-> ""]

\* Cache.save: the file afterwards
save(file, clock, data, outcome) ==
  IF outcome = "saved" THEN Snapshot(clock, data)
  ELSE IF outcome = "truncated" THEN FileUnparsable
  ELSE file

\* a Refresh that returns the error of save
RefreshFailsOnSave(file, clock, helper, saveOutcome) ==
  IF helper.kind = "ok" /\ saveOutcome = "saved"
  THEN [data |-> helper.data, err |-> "", trips |-> 1,
        file |-> save(file, clock, helper.data, saveOutcome)]
  ELSE [data |-> NoData, err |-> "saving drive cache", trips |-> 1,
        file |-> save(file, clock, helper.data, saveOutcome)]

\* Cache.Refresh: one run of the helper, then save, whose failure is only
\* a warning
Refresh(file, clock, helper, saveOutcome) ==
  IF helper.kind = "failed"
  THEN [data |-> NoData, err |-> "running --drives", trips |-> 1, file |-> file]
  ELSE IF helper.kind = "unparsable"
  THEN [data |-> NoData, err |-> "parsing drive info", trips |-> 1, file |-> file]
  ELSE [data |-> helper.data, err |-> "", trips |-> 1,
        file |-> save(file, clock, helper.data, saveOutcome)]

\* Cache.Get
Get(file, clock, ttl, helper, saveOutcome) ==
  LET loaded == load(file, clock, ttl)
  IN  IF loaded.err = ""
      THEN [data |-> loaded.data, err |-> "", trips |-> 0, file |-> file]
      ELSE Refresh(file, clock, helper, saveOutcome)

NotPersisted == [kind |-> "none"]

\* what a call leaves in persisted
persistedAfter(before, call, clock, helper, saveOutcome) ==
  IF call.trips = 0 \/ helper.kind # "ok" \/ saveOutcome = "not written"
  THEN before
  ELSE IF saveOutcome = "saved" THEN Snapshot(clock, helper.data)
  ELSE NotPersisted

NoCall ==
  [op |-> "none", at |-> 0, before |-> FileMissing, persisted |-> NotPersisted,
   helper |-> [kind |-> "failed", data |-> NoData], saved |-> "not written",
   data |-> NoData, err |-> "", trips |-> 0]

CallRecord(op, call, helper, saveOutcome) ==
  [op |-> op, at |-> now, before |-> cacheFile, persisted |-> persisted,
   helper |-> helper, saved |-> saveOutcome,
   data |-> call.data, err |-> call.err, trips |-> call.trips]

CacheFiles ==
  {FileMissing, FileUnparsable}
    \cup {Snapshot(t, d) : t \in {0, HalfTTL, DefaultTTL + HalfTTL}, d \in DriveData}

CacheIdle ==
  /\ cacheFile = FileMissing
  /\ cacheTTL = 0
  /\ now = 0
  /\ cacheGot = NoCall
  /\ persisted = NotPersisted

\* drivecache.New(ttl), with the file as other runs left it
CacheInit ==
  /\ cacheFile \in CacheFiles
  /\ cacheTTL \in {New(0), New(HalfTTL)}
  /\ now = DefaultTTL
  /\ cacheGot = NoCall
  /\ persisted = NotPersisted

\* time passes
CacheTick ==
  /\ now < DefaultTTL + MaxTicks * HalfTTL
  /\ now' = now + HalfTTL
  /\ UNCHANGED <<cacheFile, cacheTTL, cacheGot, persisted, nonCacheVars>>

\* c.Get(helperPath)
CacheGet ==
  /\ \E helper \in HelperDrivesOutcomes, saveOutcome \in SaveOutcomes :
       LET call == Get(cacheFile, now, cacheTTL, helper, saveOutcome)
       IN  /\ cacheGot' = CallRecord("Get", call, helper, saveOutcome)
           /\ cacheFile' = call.file
           /\ persisted' = persistedAfter(persisted, call, now, helper, saveOutcome)
  /\ UNCHANGED <<cacheTTL, now, nonCacheVars>>

\* c.Refresh(helperPath), as RefreshDrives calls it
CacheRefresh ==
  /\ \E helper \in HelperDrivesOutcomes, saveOutcome \in SaveOutcomes :
       LET call == Refresh(cacheFile, now, helper, saveOutcome)
       IN  /\ cacheGot' = CallRecord("Refresh", call, helper, saveOutcome)
           /\ cacheFile' = call.file
           /\ persisted' = persistedAfter(persisted, call, now, helper, saveOutcome)
  /\ UNCHANGED <<cacheTTL, now, nonCacheVars>>

(***************************************************************************)
(* package launch: Run and the functions it calls.                         *)
(***************************************************************************)
Str_dev ==
  <<"d","e","v">>

Str_v10 ==
  <<"1",".","0">>

Str_v10_line ==
  <<"1",".","0","\n">>

Str_v11_line ==
  <<"1",".","1","\n">>

Str_P4PORT ==
  <<"P","4","P","O","R","T">>

Str_P4PASSWD ==
  <<"P","4","P","A","S","S","W","D">>

Str_P4TICKETS ==
  <<"P","4","T","I","C","K","E","T","S">>

Str_P4TRUST ==
  <<"P","4","T","R","U","S","T">>

Str_p4passwd_lower ==
  <<"p","4","p","a","s","s","w","d">>

Str_P4CLIENT ==
  <<"P","4","C","L","I","E","N","T">>

\* config.defaults
defaults ==
  [Drives   |-> [Aliases |-> <<>>, PreferAliases |-> TRUE, AutoDetect |-> TRUE],
   Env      |-> [Forward |-> <<>>,
                 Block |-> <<Str_P4PASSWD, Str_P4TICKETS, Str_P4TRUST>>],
   Defaults |-> [Verb |-> "open", Show |-> "normal"]]

\* what config.Load returns without error: the defaults when there is no
\* config.toml, and the defaults overridden by what a config.toml sets
Configs ==
  { defaults,
    [defaults EXCEPT !.Drives.Aliases = (Str_q_lower :> Str_C_ws),
                     !.Env.Forward = <<Str_P4PORT, Str_p4passwd_lower, Str_P4CLIENT>>,
                     !.Defaults.Verb = "edit"],
    [defaults EXCEPT !.Drives.Aliases = (Str_q_lower :> Str_C_ws),
                     !.Drives.AutoDetect = FALSE,
                     !.Defaults.Verb = ""],
    [defaults EXCEPT !.Drives.PreferAliases = FALSE,
                     !.Env.Forward = <<Str_P4PASSWD, Str_P4PORT>>,
                     !.Env.Block = <<>>] }

\* the environment of the wstart process
Environ ==
  (Str_P4PORT :> "ssl:host:1666") @@ (Str_P4PASSWD :> "secret")
    @@ (Str_p4passwd_lower :> "secret too")

\* a collectEnvVars that compares names with the block list as written
collectEnvVarsCaseSensitive(cfg, environ) ==
  LET blocked == {cfg.Env.Block[i] : i \in DOMAIN cfg.Env.Block}
      names   == {cfg.Env.Forward[i] : i \in DOMAIN cfg.Env.Forward}
      kept    == {n \in names : n \notin blocked /\ n \in DOMAIN environ}
  IN  [n \in kept |-> environ[n]]

\* collectEnvVars: the forwarded names that are not blocked and are set
collectEnvVars(cfg, environ) ==
  LET blocked == {ToUpper(cfg.Env.Block[i]) : i \in DOMAIN cfg.Env.Block}
      names   == {cfg.Env.Forward[i] : i \in DOMAIN cfg.Env.Forward}
      kept    == {n \in names : ToUpper(n) \notin blocked /\ n \in DOMAIN environ}
  IN  [n \in kept |-> environ[n]]

\* Options as main fills them in, and with the zero values other callers
\* may leave
RunOptions ==
  { [Target |-> t, Args |-> IF t = Str_notepad_exe THEN <<Str_file_txt>> ELSE <<>>,
     Verb |-> v, WorkDir |-> d, Show |-> IF v = "" THEN "" ELSE "hidden",
     Wait |-> w, DryRun |-> dr, Verbose |-> vb] :
      t \in {Str_mnt_c_ws_ws2, Str_notepad_exe, Str_rel_file},
      v \in {"", "open", "edit"},
      d \in {Str_empty, Str_mnt_c_ws},
      w \in BOOLEAN, dr \in BOOLEAN, vb \in BOOLEAN }

Versions == {Str_empty, Str_dev, Str_v10}

\* the helper run with --version: it cannot be run or exits non-zero, or
\* prints its version
HelperVersionOutcomes ==
  {[kind |-> "failed", out |-> <<>>]}
    \cup {[kind |-> "ok", out |-> o] : o \in {Str_v10_line, Str_v11_line}}

\* a check that is skipped whatever Version holds
versionSkippedAlways(version) == TRUE

\* whether checkHelperVersion skips the query
versionSkipped(version) == version = Str_empty \/ version = Str_dev

\* hostVersion: nothing before the query, and its outcome
HostVersion(query, version) == [query |-> query, version |-> version]

NotQueried == HostVersion("none", <<>>)

\* checkHelperVersion: the error, whether the helper was run, and what it
\* reported
checkHelperVersion(version, helper) ==
  IF versionSkipped(version)
  THEN [err |-> "", ran |-> FALSE, host |-> HostVersion("skipped", <<>>)]
  ELSE IF helper.kind = "failed"
  THEN [err |-> "querying host helper version", ran |-> TRUE,
        host |-> HostVersion("failed", <<>>)]
  ELSE IF TrimSpace(helper.out) # version
  THEN [err |-> "version mismatch", ran |-> TRUE,
        host |-> HostVersion("ok", TrimSpace(helper.out))]
  ELSE [err |-> "", ran |-> TRUE, host |-> HostVersion("ok", TrimSpace(helper.out))]

\* the helper run with --exec: it cannot be started, or exits
HelperExecOutcomes ==
  {[kind |-> "not started", code |-> 0]}
    \cup {[kind |-> "exit", code |-> c] : c \in {0, 1, 3, DeniedExitStatus}}

\* an invokeHelperExec that reports every non-zero exit as 1
invokeHelperExecFlattened(helper) ==
  IF helper.kind = "exit"
  THEN [exitCode |-> IF helper.code = 0 THEN 0 ELSE 1, err |-> ""]
  ELSE [exitCode |-> 1, err |-> "helper exec failed"]

\* invokeHelperExec
invokeHelperExec(helper) ==
  IF helper.kind = "exit" THEN [exitCode |-> helper.code, err |-> ""]
  ELSE [exitCode |-> 1, err |-> "helper exec failed"]

LaunchResponse(exitCode, pid, error, errCode) ==
  [ExitCode |-> exitCode, PID |-> pid, Error |-> error, ErrCode |-> errCode]

NoResponse == LaunchResponse(0, 0, "", 0)

\* the helper run with --launch: it cannot be run or exits non-zero, with or
\* without text on stderr; its output is not the JSON of a LaunchResponse; or
\* it is
HelperLaunchOutcomes ==
  {[kind |-> "failed", stderr |-> s, raw |-> "", resp |-> NoResponse] :
     s \in {"", "wstart-host: reading stdin"}}
    \cup {[kind |-> "undecodable", stderr |-> "", raw |-> "<html>", resp |-> NoResponse]}
    \cup {[kind |-> "response", stderr |-> "", raw |-> "", resp |-> r] :
            r \in {LaunchResponse(0, 42, "", 0), LaunchResponse(3, 42, "", 0),
                   LaunchResponse(0, 0, "denied by policy", DeniedErrCode)}}

\* invokeHelper: the response, or an error
invokeHelper(helper) ==
  IF helper.kind = "failed"
  THEN [resp |-> NoResponse, err |-> "helper failed",
        detail |-> IF helper.stderr # "" THEN helper.stderr ELSE "exit status"]
  ELSE IF helper.kind = "undecodable"
  THEN [resp |-> NoResponse, err |-> "decoding response", detail |-> helper.raw]
  ELSE [resp |-> helper.resp, err |-> "", detail |-> ""]

\* a Run that never takes the dry-run return
dryRunNever(opts) == FALSE

\* the test of Run for printing the request instead of sending it
dryRun(opts) == opts.DryRun

\* a mode chosen by wait alone
useExecWaitOnly(wait, verb) == wait

\* the test of Run for the --exec mode
useExec(wait, verb) == wait /\ (verb = "open" \/ verb = "")

\* the zero Config
NoConfig ==
  [Drives   |-> [Aliases |-> <<>>, PreferAliases |-> FALSE, AutoDetect |-> FALSE],
   Env      |-> [Forward |-> <<>>, Block |-> <<>>],
   Defaults |-> [Verb |-> "", Show |-> ""]]

\* the zero LaunchRequest
ZeroRequest ==
  [File |-> <<>>, Verb |-> "", Args |-> <<>>, WorkDir |-> <<>>, Show |-> "",
   Wait |-> FALSE, EnvVars |-> <<>>]

NoConverter == [aliases |-> <<>>, preferAliases |-> FALSE]

\* cache.Get was not called
NoCacheGet ==
  [called |-> FALSE, helper |-> "not run", fetched |-> NoData,
   saved |-> "not tried", data |-> NoData, err |-> "", trips |-> 0]

\* what cache.Get saw and returned
CacheGetRecord(call, helper, saveOutcome) ==
  [called |-> TRUE,
   helper |-> IF call.trips = 0 THEN "not run" ELSE helper.kind,
   fetched |-> IF call.trips = 0 THEN NoData ELSE helper.data,
   saved  |-> IF call.trips = 0 \/ helper.kind # "ok" THEN "not tried" ELSE saveOutcome,
   data   |-> call.data, err |-> call.err, trips |-> call.trips]

Result(exitCode, pid) == [ExitCode |-> exitCode, PID |-> pid]

NilResult == [ExitCode |-> 0, PID |-> 0, nil |-> TRUE]

\* Run has started no helper process for the launch
NotInvoked == [kind |-> "none"]

NotReturned ==
  [returned |-> FALSE, err |-> "", detail |-> "", errCode |-> 0, result |-> NilResult]

\* return nil, err
ReturnError(err, detail) ==
  [returned |-> TRUE, err |-> err, detail |-> detail, errCode |-> 0,
   result |-> NilResult]

\* return nil, fmt.Errorf("host helper: %s (code %d)", resp.Error, resp.ErrCode)
ReturnHostError(resp) ==
  [returned |-> TRUE, err |-> "host helper", detail |-> resp.Error,
   errCode |-> resp.ErrCode, result |-> NilResult]

\* return &Result{...}, nil
ReturnResult(result) ==
  [returned |-> TRUE, err |-> "", detail |-> "", errCode |-> 0, result |-> result]

\* a Run that turns the exit status of a denial into an error
execReturnDenialAsError(helper) ==
  LET invoked == invokeHelperExec(helper)
  IN  IF invoked.err # "" THEN ReturnError(invoked.err, "")
      ELSE IF invoked.exitCode = DeniedExitStatus
      THEN ReturnError("host helper", "denied")
      ELSE ReturnResult(Result(invoked.exitCode, 0))

\* what Run returns from the call of invokeHelperExec
execReturn(helper) ==
  LET invoked == invokeHelperExec(helper)
  IN  IF invoked.err # "" THEN ReturnError(invoked.err, "")
      ELSE ReturnResult(Result(invoked.exitCode, 0))

\* a Run that does not look at the error field of the response
launchReturnIgnoringError(helper) ==
  LET invoked == invokeHelper(helper)
  IN  IF invoked.err # "" THEN ReturnError(invoked.err, invoked.detail)
      ELSE ReturnResult(Result(invoked.resp.ExitCode, invoked.resp.PID))

\* what Run returns from the call of invokeHelper
launchReturn(helper) ==
  LET invoked == invokeHelper(helper)
  IN  IF invoked.err # "" THEN ReturnError(invoked.err, invoked.detail)
      ELSE IF invoked.resp.Error # "" THEN ReturnHostError(invoked.resp)
      ELSE ReturnResult(Result(invoked.resp.ExitCode, invoked.resp.PID))

\* fmt.Fprintf(os.Stderr, ...) under opts.Verbose
Verbosely(diag, opts, line) == IF opts.Verbose THEN Append(diag, line) ELSE diag

\* the files other runs may have left in the cache directory, none of them
\* written after RunClock
RunCacheFiles ==
  {FileMissing, Snapshot(0, DrivesNoSubst), Snapshot(HalfTTL, DrivesWithSubst)}

\* the time of the run
RunClock == DefaultTTL + HalfTTL

RunIdle ==
  /\ runOpts = [Target |-> <<>>, Args |-> <<>>, Verb |-> "", WorkDir |-> <<>>,
                Show |-> "", Wait |-> FALSE, DryRun |-> FALSE, Verbose |-> FALSE]
  /\ runVersion = <<>>
  /\ runPc = "idle"
  /\ runHelper = <<>>
  /\ runHostVersion = NotQueried
  /\ runCfg = NoConfig
  /\ runCache = NoCacheGet
  /\ runDrives = <<>>
  /\ runConv = NoConverter
  /\ runTarget = <<>>
  /\ runWorkDir = <<>>
  /\ runReq = ZeroRequest
  /\ runDiag = <<>>
  /\ runStdout = <<>>
  /\ runInvoked = NotInvoked
  /\ runOut = NotReturned

\* Run(opts) is called
RunInit ==
  /\ runOpts \in RunOptions
  /\ runVersion \in Versions
  /\ runPc = "detect"
  /\ runHelper = <<>>
  /\ runHostVersion = NotQueried
  /\ runCfg = NoConfig
  /\ runCache = NoCacheGet
  /\ runDrives = <<>>
  /\ runConv = NoConverter
  /\ runTarget = <<>>
  /\ runWorkDir = <<>>
  /\ runReq = ZeroRequest
  /\ runDiag = <<>>
  /\ runStdout = <<>>
  /\ runInvoked = NotInvoked
  /\ runOut = NotReturned

\* the cache file and the clock when Run is called
RunCacheInit ==
  /\ cacheFile \in RunCacheFiles
  /\ cacheTTL = 0
  /\ now = RunClock
  /\ cacheGot = NoCall
  /\ persisted = NotPersisted

\* 1. interop.Detect
RunDetect ==
  /\ runPc = "detect"
  /\ \E ok \in BOOLEAN :
       IF ok
       THEN /\ runDiag' = Verbosely(runDiag, runOpts, "WSL version")
            /\ runPc' = "findHelper"
            /\ UNCHANGED runOut
       ELSE /\ runOut' = ReturnError("WSL interop", "")
            /\ runPc' = "done"
            /\ UNCHANGED runDiag
  /\ UNCHANGED <<runOpts, runVersion, runHostVersion, runHelper, runCfg, runCache, runDrives,
                 runConv, runTarget, runWorkDir, runReq, runStdout, runInvoked>>
  /\ UNCHANGED <<cacheVars, nonRunVars>>

\* 2. findHelper
RunFindHelper ==
  /\ runPc = "findHelper"
  /\ \E found \in BOOLEAN :
       IF found
       THEN /\ runDiag' = Verbosely(runDiag, runOpts, "Helper")
            /\ runPc' = "checkVersion"
            /\ UNCHANGED runOut
       ELSE /\ runOut' = ReturnError("wstart-host.exe not found", "")
            /\ runPc' = "done"
            /\ UNCHANGED runDiag
  /\ UNCHANGED <<runOpts, runVersion, runHostVersion, runHelper, runCfg, runCache, runDrives,
                 runConv, runTarget, runWorkDir, runReq, runStdout, runInvoked>>
  /\ UNCHANGED <<cacheVars, nonRunVars>>

\* 2. checkHelperVersion
RunCheckHelperVersion ==
  /\ runPc = "checkVersion"
  /\ \E helper \in HelperVersionOutcomes :
       LET checked == checkHelperVersion(runVersion, helper)
       IN  /\ runHelper' = IF checked.ran THEN Append(runHelper, "--version")
                           ELSE runHelper
           /\ runHostVersion' = checked.host
           /\ runDiag' = IF checked.ran /\ helper.kind = "ok"
                         THEN Verbosely(runDiag, runOpts, "Version")
                         ELSE runDiag
           /\ IF checked.err = ""
              THEN /\ runPc' = "loadConfig"
                   /\ UNCHANGED runOut
              ELSE /\ runOut' = ReturnError(checked.err, "")
                   /\ runPc' = "done"
  /\ UNCHANGED <<runOpts, runVersion, runCfg, runCache, runDrives,
                 runConv, runTarget, runWorkDir, runReq, runStdout, runInvoked>>
  /\ UNCHANGED <<cacheVars, nonRunVars>>

\* 3. config.Load
RunLoadConfig ==
  /\ runPc = "loadConfig"
  /\ \/ /\ runCfg' \in Configs
        /\ runPc' = "drives"
        /\ UNCHANGED runOut
     \/ /\ runOut' = ReturnError("loading config", "")
        /\ runPc' = "done"
        /\ UNCHANGED runCfg
  /\ UNCHANGED <<runOpts, runVersion, runHostVersion, runHelper, runCache, runDrives,
                 runConv, runTarget, runWorkDir, runReq, runDiag, runStdout, runInvoked>>
  /\ UNCHANGED <<cacheVars, nonRunVars>>

\* 4. drivecache.New(0) and cache.Get when cfg.Drives.AutoDetect
RunGetDrives ==
  /\ runPc = "drives"
  /\ IF runCfg.Drives.AutoDetect
     THEN \E helper \in HelperDrivesOutcomes, saveOutcome \in SaveOutcomes :
            LET call == Get(cacheFile, now, New(0), helper, saveOutcome)
            IN  /\ runCache' = CacheGetRecord(call, helper, saveOutcome)
                /\ cacheFile' = call.file
                /\ cacheTTL' = New(0)
                /\ runHelper' = IF call.trips = 0 THEN runHelper
                                ELSE Append(runHelper, "--drives")
                /\ IF call.err # ""
                   THEN /\ runDrives' = <<>>
                        /\ runDiag' = Verbosely(runDiag, runOpts,
                                        "Drive cache: continuing without aliases")
                   ELSE /\ runDrives' = call.data
                        /\ runDiag' =
                             IF \E i \in DOMAIN call.data : call.data[i].Type = DriveSubst
                             THEN Verbosely(runDiag, runOpts, "Subst")
                             ELSE runDiag
     ELSE /\ runDrives' = <<>>
          /\ UNCHANGED <<runCache, cacheFile, cacheTTL, runHelper, runDiag>>
  /\ runPc' = "newConverter"
  /\ UNCHANGED <<runOpts, runVersion, runHostVersion, runCfg, runConv, runTarget, runWorkDir,
                 runReq, runStdout, runInvoked, runOut>>
  /\ UNCHANGED <<now, cacheGot, persisted, nonRunVars>>

\* 5. pathconv.NewConverter(drives, cfg.Drives.Aliases, cfg.Drives.PreferAliases)
RunNewConverter ==
  /\ runPc = "newConverter"
  /\ \E order \in KeyOrders(runCfg.Drives.Aliases) :
       runConv' = [aliases |-> mergeConfig(substAliases(runDrives),
                                           runCfg.Drives.Aliases, order),
                   preferAliases |-> runCfg.Drives.PreferAliases]
  /\ runPc' = "target"
  /\ UNCHANGED <<runOpts, runVersion, runHostVersion, runHelper, runCfg, runCache, runDrives,
                 runTarget, runWorkDir, runReq, runDiag, runStdout, runInvoked, runOut>>
  /\ UNCHANGED <<cacheVars, nonRunVars>>

\* 5. conv.ToWindows(opts.Target)
RunTranslateTarget ==
  /\ runPc = "target"
  /\ \E env \in Environments :
       LET translated == ToWindows(runConv, runOpts.Target, env)
       IN  IF translated.err = ""
           THEN /\ runTarget' = translated.out
                /\ runPc' = "workDir"
                /\ UNCHANGED runOut
           ELSE /\ runOut' = ReturnError("translating target path", translated.err)
                /\ runPc' = "done"
                /\ UNCHANGED runTarget
  /\ UNCHANGED <<runOpts, runVersion, runHostVersion, runHelper, runCfg, runCache, runDrives,
                 runConv, runWorkDir, runReq, runDiag, runStdout, runInvoked>>
  /\ UNCHANGED <<cacheVars, nonRunVars>>

\* 5. conv.ToWindows of opts.WorkDir, or of the current directory when
\* opts.WorkDir is empty
RunTranslateWorkDir ==
  /\ runPc = "workDir"
  /\ \E env \in Environments :
       IF runOpts.WorkDir # <<>>
       THEN LET translated == ToWindows(runConv, runOpts.WorkDir, env)
            IN  /\ UNCHANGED runDiag
                /\ IF translated.err = ""
                   THEN /\ runWorkDir' = translated.out
                        /\ runPc' = "request"
                        /\ UNCHANGED runOut
                   ELSE /\ runOut' = ReturnError("translating working directory",
                                                 translated.err)
                        /\ runPc' = "done"
                        /\ UNCHANGED runWorkDir
       ELSE LET cwd        == IF env.getwd THEN Cwd ELSE <<>>
                translated == ToWindows(runConv, cwd, env)
            IN  /\ runPc' = "request"
                /\ UNCHANGED runOut
                /\ IF translated.err = ""
                   THEN /\ runWorkDir' = translated.out
                        /\ UNCHANGED runDiag
                   ELSE /\ runWorkDir' = <<>>
                        /\ runDiag' = Verbosely(runDiag, runOpts,
                                                "Could not translate cwd")
  /\ UNCHANGED <<runOpts, runVersion, runHostVersion, runHelper, runCfg, runCache, runDrives,
                 runConv, runTarget, runReq, runStdout, runInvoked>>
  /\ UNCHANGED <<cacheVars, nonRunVars>>

\* 6. the launch request
RunBuildRequest ==
  /\ runPc = "request"
  /\ runReq' = [File    |-> runTarget,
                Verb    |-> IF runOpts.Verb = "" THEN runCfg.Defaults.Verb
                            ELSE runOpts.Verb,
                Args    |-> runOpts.Args,
                WorkDir |-> runWorkDir,
                Show    |-> IF runOpts.Show = "" THEN runCfg.Defaults.Show
                            ELSE runOpts.Show,
                Wait    |-> runOpts.Wait,
                EnvVars |-> collectEnvVars(runCfg, Environ)]
  /\ runDiag' = Verbosely(runDiag, runOpts, "Request")
  /\ runPc' = "built"
  /\ UNCHANGED <<runOpts, runVersion, runHostVersion, runHelper, runCfg, runCache, runDrives,
                 runConv, runTarget, runWorkDir, runStdout, runInvoked, runOut>>
  /\ UNCHANGED <<cacheVars, nonRunVars>>

\* 6. opts.DryRun: the request is printed
RunDryRun ==
  /\ runPc = "built"
  /\ dryRun(runOpts)
  /\ runStdout' = Append(runStdout, runReq)
  /\ runOut' = ReturnResult(Result(0, 0))
  /\ runPc' = "done"
  /\ UNCHANGED <<runOpts, runVersion, runHostVersion, runHelper, runCfg, runCache, runDrives,
                 runConv, runTarget, runWorkDir, runReq, runDiag, runInvoked>>
  /\ UNCHANGED <<cacheVars, nonRunVars>>

\* 7. invokeHelperExec for wait with the verb open
RunInvokeExec ==
  /\ runPc = "built"
  /\ ~dryRun(runOpts)
  /\ useExec(runOpts.Wait, runReq.Verb)
  /\ \E helper \in HelperExecOutcomes :
       /\ runInvoked' = helper
       /\ runOut' = execReturn(helper)
  /\ runHelper' = Append(runHelper, "--exec")
  /\ runPc' = "done"
  /\ UNCHANGED <<runOpts, runVersion, runHostVersion, runCfg, runCache, runDrives,
                 runConv, runTarget, runWorkDir, runReq, runDiag, runStdout>>
  /\ UNCHANGED <<cacheVars, nonRunVars>>

\* 7. invokeHelper for everything else
RunInvokeLaunch ==
  /\ runPc = "built"
  /\ ~dryRun(runOpts)
  /\ ~useExec(runOpts.Wait, runReq.Verb)
  /\ \E helper \in HelperLaunchOutcomes :
       /\ runInvoked' = helper
       /\ runOut' = launchReturn(helper)
  /\ runHelper' = Append(runHelper, "--launch")
  /\ runPc' = "done"
  /\ UNCHANGED <<runOpts, runVersion, runHostVersion, runCfg, runCache, runDrives,
                 runConv, runTarget, runWorkDir, runReq, runDiag, runStdout>>
  /\ UNCHANGED <<cacheVars, nonRunVars>>

(***************************************************************************)
(* wstart and the helper together: Run's invocation of the helper, the     *)
(* helper's run, and the exit of wstart.                                   *)
(***************************************************************************)
\* the exit status of a process as wait reports it on Linux, where
\* cmd.Run and ExitError.ExitCode read it: its low eight bits
LinuxExitStatus(code) == code % 256

\* exec.Command(helperPath, ...) could not start the helper
HelperNotStarted ==
  /\ files = [d \in Dirs |-> NoFile]
  /\ stdin \in {[mode |-> m, decodes |-> FALSE, req |-> NoRequest] : m \in Modes}
  /\ pc = "not started"
  /\ req = NoRequest
  /\ lr = NoLoadResult
  /\ checkErr = NotChecked
  /\ calls = <<>>
  /\ stdout = <<>>
  /\ exit = Running
  /\ child = NoChild

\* json.Unmarshal of the response the helper encoded
DecodeResponse(r) == LaunchResponse(r.exitCode, r.pid, r.error, r.errCode)

\* what cmd.Run of invokeHelperExec finds
ExecOutcome ==
  IF pc = "not started" THEN [kind |-> "not started", code |-> 0]
  ELSE [kind |-> "exit", code |-> LinuxExitStatus(exit[1])]

\* what cmd.Run and json.Unmarshal of invokeHelper find
LaunchOutcome ==
  IF pc = "not started"
  THEN [kind |-> "failed", stderr |-> "", raw |-> "", resp |-> NoResponse]
  ELSE IF LinuxExitStatus(exit[1]) # 0
  THEN [kind |-> "failed", stderr |-> "wstart-host: error", raw |-> "",
        resp |-> NoResponse]
  ELSE IF stdout = <<>>
  THEN [kind |-> "undecodable", stderr |-> "", raw |-> "", resp |-> NoResponse]
  ELSE [kind |-> "response", stderr |-> "", raw |-> "",
        resp |-> DecodeResponse(stdout[Len(stdout)])]

\* main: fatal(err) exits with 1, else os.Exit(result.ExitCode)
mainExit(out) ==
  IF out.err # "" THEN 1 ELSE LinuxExitStatus(out.result.ExitCode)

\* the helper has exited or could not be started: invokeHelperExec or
\* invokeHelper returns, and Run returns
WstartReturn ==
  /\ pc \in {"done", "not started"}
  /\ ~runOut.returned
  /\ runInvoked' = IF stdin.mode = "exec" THEN ExecOutcome ELSE LaunchOutcome
  /\ runOut' = IF stdin.mode = "exec" THEN execReturn(ExecOutcome)
               ELSE launchReturn(LaunchOutcome)
  /\ UNCHANGED <<runOpts, runVersion, runPc, runHelper, runHostVersion, runCfg,
                 runCache, runDrives, runConv, runTarget, runWorkDir, runReq,
                 runDiag, runStdout>>
  /\ UNCHANGED <<cacheVars, nonRunVars>>

\* main after Run
WstartExit ==
  /\ runOut.returned
  /\ wstartExit = Running
  /\ wstartExit' = <<mainExit(runOut)>>
  /\ UNCHANGED <<helperVars, scanVars, convVars, winVars, cacheVars, runVars, raceVars>>

(***************************************************************************)
(* Invocations of wstart racing on drives.json.  load reads the file with  *)
(* os.ReadFile: open, fstat for the size of the buffer, then read calls    *)
(* until one returns nothing.  save writes it with os.WriteFile: open with *)
(* O_TRUNC, then one write at offset 0.  Nothing locks the file, so every  *)
(* system call of one invocation can fall between two of another.  The     *)
(* content of the file is a sequence of segments, each a range of the      *)
(* bytes of one piece of the JSON text.                                    *)
(***************************************************************************)
MaxProcs == 3

Procs == 1 .. MaxProcs

NoDrive == DriveInfo(Str_empty, "", <<>>)

\* the pieces of the text json.MarshalIndent produces for a cacheFile: the
\* opening with the timestamp, one object per drive, the closing
HeadPiece(timestamp) == [kind |-> "head", at |-> timestamp, drive |-> NoDrive]

DrivePiece(drive) == [kind |-> "drive", at |-> 0, drive |-> drive]

TailPiece == [kind |-> "tail", at |-> 0, drive |-> NoDrive]

\* the length of a piece in bytes, in a layout where the fifth drive object
\* starts at byte 512
PieceBytes(piece) == IF piece.kind = "drive" THEN 104 ELSE 96

\* all the bytes of a piece
Whole(piece) == [piece |-> piece, from |-> 0, to |-> PieceBytes(piece)]

IsWhole(seg) == seg.from = 0 /\ seg.to = PieceBytes(seg.piece)

\* json.MarshalIndent(cacheFile{Timestamp, Data})
Marshal(timestamp, data) ==
  <<Whole(HeadPiece(timestamp))>>
    \o [i \in 1 .. Len(data) |-> Whole(DrivePiece(data[i]))]
    \o <<Whole(TailPiece)>>

RECURSIVE Size(_)
\* the number of bytes of a content
Size(segs) ==
  IF segs = <<>> THEN 0
  ELSE (Head(segs).to - Head(segs).from) + Size(Tail(segs))

RECURSIVE Slice(_, _, _)
\* the bytes lo .. hi - 1 of a content
Slice(segs, lo, hi) ==
  IF segs = <<>> \/ hi <= 0 THEN <<>>
  ELSE LET s == Head(segs)
           n == s.to - s.from
           a == IF lo > 0 THEN lo ELSE 0
           b == IF hi < n THEN hi ELSE n
       IN  IF a >= n THEN Slice(Tail(segs), lo - n, hi - n)
           ELSE <<[s EXCEPT !.from = s.from + a, !.to = s.from + b]>>
                  \o Slice(Tail(segs), 0, hi - n)

RECURSIVE Join(_)
\* a content with the ranges that continue each other in one piece put
\* together
Join(segs) ==
  IF Len(segs) < 2 THEN segs
  ELSE IF segs[1].piece = segs[2].piece /\ segs[1].to = segs[2].from
  THEN Join(<<[segs[1] EXCEPT !.to = segs[2].to]>> \o SubSeq(segs, 3, Len(segs)))
  ELSE <<segs[1]>> \o Join(Tail(segs))

\* json.Unmarshal(data, &cf): one complete object and nothing after it.
\* Bytes of two different pieces that meet inside a piece are taken not to
\* form a piece, which is the reading that favours the reader.
Unmarshal(buf) ==
  LET text == Join(buf)
      n == Len(text)
  IN  IF /\ n >= 2
         /\ \A i \in 1 .. n : IsWhole(text[i])
         /\ text[1].piece.kind = "head"
         /\ text[n].piece.kind = "tail"
         /\ \A i \in 2 .. n - 1 : text[i].piece.kind = "drive"
      THEN Snapshot(text[1].piece.at, [i \in 1 .. n - 2 |-> text[i + 1].piece.drive])
      ELSE FileUnparsable

\* os.ReadFile: the capacity of the buffer for a file of this size
ReadBufCap(size) == IF size + 1 < 512 THEN 512 ELSE size + 1

\* os.ReadFile: append on a full buffer
GrowBuf(cap) == cap + (cap + 768) \div 4

\* a write of data at offset 0 of a file holding old
WriteAt0(data, old) == data \o Slice(old, Size(data), Size(old))

\* drives of Windows before and after two substituted drives were moved
DrivesBeforeMove ==
  <<DriveInfo(Str_C, DriveFixed, <<>>), DriveInfo(<<"D">>, DriveFixed, <<>>),
    DriveInfo(Str_P, DriveSubst, Str_C_ws), DriveInfo(<<"Q">>, DriveSubst, Str_C_ws),
    DriveInfo(<<"R">>, DriveSubst, Str_C_ws)>>

DrivesAfterMove ==
  <<DriveInfo(Str_C, DriveFixed, <<>>), DriveInfo(<<"D">>, DriveFixed, <<>>),
    DriveInfo(Str_P, DriveSubst, Str_C_ws), DriveInfo(<<"S">>, DriveSubst, Str_C_ws),
    DriveInfo(<<"T">>, DriveSubst, Str_C_ws)>>

\* the helper run with --drives by a racing invocation
RaceHelperOutcomes ==
  {[kind |-> "failed", data |-> NoData]}
    \cup {[kind |-> "ok", data |-> d] : d \in {DrivesBeforeMove, DrivesAfterMove}}

\* the clock of the racing invocations, which run within one minute
RaceClock == DefaultTTL + HalfTTL

NoCacheFile == [exists |-> FALSE, content |-> <<>>]

FileOf(timestamp, data) == [exists |-> TRUE, content |-> Marshal(timestamp, data)]

\* drives.json as earlier runs left it: absent, expired, or fresh
RaceFiles ==
  {NoCacheFile, FileOf(0, DrivesNoSubst), FileOf(DefaultTTL, DrivesBeforeMove)}

\* the snapshot a file holds when it was written in full
WrittenIn(file) ==
  IF file.exists THEN {Unmarshal(file.content)} ELSE {}

\* an invocation that has not called Get
ProcStart ==
  [pc |-> "load", cap |-> 0, buf |-> <<>>, fetched |-> NoData,
   data |-> NoData, err |-> "", trips |-> 0]

RaceIdle ==
  /\ raceFile = NoCacheFile
  /\ raceProc = [p \in Procs |-> ProcStart]
  /\ raceWritten = {}

RaceInit ==
  /\ raceFile \in RaceFiles
  /\ raceProc = [p \in Procs |-> ProcStart]
  /\ raceWritten = WrittenIn(raceFile)

\* load: os.ReadFile opens the file and sizes its buffer
RaceOpen(p) ==
  /\ raceProc[p].pc = "load"
  /\ raceProc' =
       [raceProc EXCEPT ![p] =
          IF raceFile.exists
          THEN [@ EXCEPT !.pc = "read", !.cap = ReadBufCap(Size(raceFile.content))]
          ELSE [@ EXCEPT !.pc = "refresh"]]
  /\ UNCHANGED <<raceFile, raceWritten, nonRaceVars>>

\* load: one read of os.ReadFile into the free part of its buffer; at the
\* end of the file json.Unmarshal and the test of the age follow
RaceRead(p) ==
  /\ raceProc[p].pc = "read"
  /\ LET me == raceProc[p]
         at == Size(me.buf)
         got == Slice(raceFile.content, at, at + (me.cap - at))
         loaded == load(Unmarshal(me.buf), RaceClock, New(0))
     IN  raceProc' =
           [raceProc EXCEPT ![p] =
              IF got # <<>>
              THEN [@ EXCEPT !.buf = me.buf \o got,
                             !.cap = IF at + Size(got) >= me.cap
                                     THEN GrowBuf(me.cap) ELSE me.cap]
              ELSE IF loaded.err = ""
              THEN [@ EXCEPT !.pc = "done", !.data = loaded.data]
              ELSE [@ EXCEPT !.pc = "refresh"]]
  /\ UNCHANGED <<raceFile, raceWritten, nonRaceVars>>

\* Refresh: the helper is run with --drives
RaceFetch(p) ==
  /\ raceProc[p].pc = "refresh"
  /\ \E helper \in RaceHelperOutcomes :
       raceProc' =
         [raceProc EXCEPT ![p] =
            IF helper.kind = "ok"
            THEN [@ EXCEPT !.pc = "save", !.fetched = helper.data, !.trips = 1]
            ELSE [@ EXCEPT !.pc = "done", !.err = "running --drives", !.trips = 1]]
  /\ UNCHANGED <<raceFile, raceWritten, nonRaceVars>>

\* save: os.WriteFile opens the file with O_CREATE and O_TRUNC, unless
\* MkdirAll or the open fails, which Refresh only warns about
RaceTruncate(p) ==
  /\ raceProc[p].pc = "save"
  /\ \E opened \in BOOLEAN :
       /\ raceProc' =
            [raceProc EXCEPT ![p] =
               IF opened THEN [@ EXCEPT !.pc = "write"]
               ELSE [@ EXCEPT !.pc = "done", !.data = raceProc[p].fetched]]
       /\ raceFile' = IF opened THEN [exists |-> TRUE, content |-> <<>>] ELSE raceFile
  /\ UNCHANGED <<raceWritten, nonRaceVars>>

\* save: os.WriteFile writes the text, unless the write fails, and Refresh
\* returns what the helper answered
RaceWrite(p) ==
  /\ raceProc[p].pc = "write"
  /\ \E wrote \in BOOLEAN :
       LET snapshot == Marshal(RaceClock, raceProc[p].fetched)
       IN  /\ raceFile' =
                IF wrote
                THEN [raceFile EXCEPT !.content = WriteAt0(snapshot, raceFile.content)]
                ELSE raceFile
           /\ raceWritten' =
                IF wrote THEN raceWritten \cup {Snapshot(RaceClock, raceProc[p].fetched)}
                ELSE raceWritten
  /\ raceProc' = [raceProc EXCEPT ![p] = [@ EXCEPT !.pc = "done", !.data = raceProc[p].fetched]]
  /\ UNCHANGED nonRaceVars

\* the wstart process has not exited
MainIdle == wstartExit = Running

\* one invocation of the helper
Init == HelperInit /\ ScanIdle /\ ConvIdle /\ WinIdle /\ CacheIdle /\ RunIdle /\ MainIdle /\ RaceIdle

Next == HelperNext

Spec == Init /\ [][Next]_vars

\* one call of firstPositionalArg
InitArgs == HelperIdle /\ ScanInit /\ ConvIdle /\ WinIdle /\ CacheIdle /\ RunIdle /\ MainIdle /\ RaceIdle

NextArgs == ScanFirstPositionalArg

SpecArgs == InitArgs /\ [][NextArgs]_vars

\* one converter built and applied to one path
InitAlias == HelperIdle /\ ScanIdle /\ ConvInit /\ WinIdle /\ CacheIdle /\ RunIdle /\ MainIdle /\ RaceIdle

NextAlias == ConvNewConverter \/ ConvApplyAlias

SpecAlias == InitAlias /\ [][NextAlias]_vars

\* one call of ToWindows
InitWin == HelperIdle /\ ScanIdle /\ ConvIdle /\ WinInit /\ CacheIdle /\ RunIdle /\ MainIdle /\ RaceIdle

NextWin == WinToWindows

SpecWin == InitWin /\ [][NextWin]_vars

\* one drive cache used over time
InitCache == HelperIdle /\ ScanIdle /\ ConvIdle /\ WinIdle /\ CacheInit /\ RunIdle /\ MainIdle /\ RaceIdle

NextCache == CacheTick \/ CacheGet \/ CacheRefresh

SpecCache == InitCache /\ [][NextCache]_vars

\* one call of launch.Run
InitRun == HelperIdle /\ ScanIdle /\ ConvIdle /\ WinIdle /\ RunCacheInit /\ RunInit /\ MainIdle /\ RaceIdle

NextRun ==
  \/ RunDetect
  \/ RunFindHelper
  \/ RunCheckHelperVersion
  \/ RunLoadConfig
  \/ RunGetDrives
  \/ RunNewConverter
  \/ RunTranslateTarget
  \/ RunTranslateWorkDir
  \/ RunBuildRequest
  \/ RunDryRun
  \/ RunInvokeExec
  \/ RunInvokeLaunch

SpecRun == InitRun /\ [][NextRun]_vars

\* one invocation of the helper by wstart, up to the exit of wstart
InitWstart ==
  /\ HelperInit \/ HelperNotStarted
  /\ ScanIdle /\ ConvIdle /\ WinIdle /\ CacheIdle /\ RunIdle /\ MainIdle /\ RaceIdle

NextWstart == HelperNext \/ WstartReturn \/ WstartExit

SpecWstart == InitWstart /\ [][NextWstart]_vars

\* invocations of wstart calling Get on the same drives.json
InitRace ==
  /\ HelperIdle /\ ScanIdle /\ ConvIdle /\ WinIdle /\ CacheIdle /\ RunIdle /\ MainIdle
  /\ RaceInit

NextRace ==
  \E p \in Procs :
    RaceOpen(p) \/ RaceRead(p) \/ RaceFetch(p) \/ RaceTruncate(p) \/ RaceWrite(p)

SpecRace == InitRace /\ [][NextRace]_vars

(***************************************************************************)
(* Properties of the helper and its allowlist.                             *)
(***************************************************************************)
ExecPrimitives == {"Execute", "ExecuteConsole"}

\* allowlist.Load has returned in this invocation
LoadDone == pc = "loaded" \/ checkErr # NotChecked

\* Check has returned in this invocation
Checked == checkErr # NotChecked

\* Check has returned an error
Denied == Checked /\ checkErr # NoError

\* Check has returned and no execution primitive has been called yet
JustChecked == Checked /\ calls = <<"Check">>

\* the indices of the loaded rules whose program matches the file
MatchingRules(rules, file) ==
  {k \in DOMAIN rules : matchProgram(normalizeProgram(file), rules[k].Program)}

FirstMatch(rules, file) ==
  CHOOSE k \in MatchingRules(rules, file) :
    \A m \in MatchingRules(rules, file) : k <= m

(* C1: in every invocation, in --launch and in --exec mode, an execution
   primitive (Execute, ExecuteConsole) is called only after Check was
   called on the request's File and Args, and once Check has denied the
   request no execution primitive is ever called. *)
C1_CheckBeforeExecution ==
  /\ \A i \in DOMAIN calls :
       calls[i] \in ExecPrimitives => \E j \in 1..(i - 1) : calls[j] = "Check"
  /\ Checked => checkErr = Check(lr, req.File, req.Args)
  /\ Denied => \A i \in DOMAIN calls : calls[i] \notin ExecPrimitives

C1_Witness ==
  /\ pc = "done"
  /\ Denied
  /\ stdin.mode = "exec"
  /\ calls = <<"Check">>

(* C2: whenever allowlist.toml is present in the helper's directory, Load
   yields Loaded = TRUE and a request whose program matches no rule is
   denied; only the absence of the file yields Loaded = FALSE. *)
C2_PresentFileIsEnforced ==
  /\ LoadDone => (lr.Loaded <=> files[HelperDir].exists)
  /\ ( /\ Checked
       /\ files[HelperDir].exists
       /\ MatchingRules(files[HelperDir].rules, req.File) = {} )
     => checkErr # NoError

(* C3: a denial, whatever its reason, is reported with code 5: in --launch
   mode the helper writes one LaunchResponse with a non-empty error and
   errCode 5, in --exec mode it exits with status 5. *)
C3_DenialIsAccessDenied ==
  Denied =>
    /\ checkErr.kind \in { DeniedProgram(<<>>).kind,
                           DeniedNoSubcommand(Rule(<<>>, <<>>)).kind,
                           DeniedSubcommand(Rule(<<>>, <<>>), <<>>).kind }
    /\ IF stdin.mode = "launch"
       THEN /\ Len(stdout) = 1
            /\ stdout[1].error # ""
            /\ stdout[1].errCode = 5
       ELSE /\ stdout = <<>>
            /\ exit = <<5>>

C3_Witness ==
  /\ Denied
  /\ stdin.mode = "launch"
  /\ checkErr.kind = DeniedNoSubcommand(Rule(<<>>, <<>>)).kind
  /\ pc = "done"

\* every combination of the request fields other than File and Args
RequestRestAll ==
  [ Verb : {"open", "runas"},
    WorkDir : {"", OtherDir},
    Show : {"normal", "hidden"},
    Wait : BOOLEAN,
    EnvVars : {NoEnv, SomeEnv} ]

(* C4: the decision depends on the allowlist file in the helper's directory
   and on the request's File and Args only: a request with the same File
   and Args and any other verb, working directory, show, wait and
   environment gets the same decision as the one the helper has just
   taken, and is checked against the allowlist of the same directory. *)
C4_DecisionDependsOnFileAndArgs ==
  JustChecked =>
    /\ lr.Path = HelperDir
    /\ \A rest \in RequestRestAll :
         LET other == LaunchRequest(req.File, req.Args, rest)
         IN  /\ AllowlistDir(other) = lr.Path
             /\ (PolicyDecision(files, other) = NoError) <=> (checkErr = NoError)

C4_Witness ==
  /\ Denied
  /\ req.Verb = "runas"
  /\ req.WorkDir = OtherDir
  /\ req.Wait
  /\ req.EnvVars = SomeEnv

(* C5: with no allowlist file present, Load yields Loaded = FALSE, and
   with Loaded = FALSE Check permits every file and argument list, the
   empty one included. *)
C5_NoAllowlistPermitsAll ==
  /\ (LoadDone /\ ~files[HelperDir].exists) => ~lr.Loaded
  /\ (Checked /\ ~lr.Loaded) => checkErr = NoError

C5_Witness ==
  /\ Checked
  /\ ~files[HelperDir].exists
  /\ req.Args = <<>>
  /\ checkErr = NoError
  /\ pc = "permitted"

(* C6: the first rule, in list order, whose program matches the file
   decides alone: Check returns what it returns for the list made of that
   one rule.  With rules [{p4,[edit]},{p4,[]}] the request (p4,[sync]) is
   denied. *)
C6_FirstMatchDecides ==
  /\ (Checked /\ lr.Loaded /\ MatchingRules(lr.List, req.File) # {}) =>
       checkErr = Check([lr EXCEPT !.List = <<lr.List[FirstMatch(lr.List, req.File)]>>],
                        req.File, req.Args)
  /\ ( /\ Checked
       /\ lr.Loaded
       /\ lr.List = <<Rule(Str_p4, <<Str_edit>>), Rule(Str_p4, <<>>)>>
       /\ req.File = Str_p4
       /\ req.Args = <<Str_sync>> )
     => checkErr # NoError

C6_Witness ==
  /\ Denied
  /\ lr.Loaded
  /\ lr.List = <<Rule(Str_p4, <<Str_edit>>), Rule(Str_p4, <<>>)>>
  /\ req.File = Str_p4
  /\ req.Args = <<Str_sync>>

(* C8: with R the first matching rule: if R.Commands is empty the request
   is permitted; otherwise it is permitted exactly when
   firstPositionalArg(args) is non-empty and equals an entry of R.Commands
   up to letter case; otherwise Check returns a denial. *)
C8_RuleDecision ==
  (Checked /\ lr.Loaded /\ MatchingRules(lr.List, req.File) # {}) =>
    LET rule == lr.List[FirstMatch(lr.List, req.File)]
        sub  == firstPositionalArg(req.Args)
    IN  /\ Len(rule.Commands) = 0 => checkErr = NoError
        /\ Len(rule.Commands) > 0 =>
             ( (checkErr = NoError) <=>
               ( /\ sub # <<>>
                 /\ \E k \in DOMAIN rule.Commands :
                      ToLower(sub) = ToLower(rule.Commands[k]) ) )
        /\ checkErr # NoError =>
             checkErr.kind \in { DeniedNoSubcommand(rule).kind,
                                 DeniedSubcommand(rule, sub).kind }

C8_Witness ==
  /\ Checked
  /\ lr.Loaded
  /\ lr.List = <<Rule(Str_p4, <<Str_edit, Str_sync>>)>>
  /\ req.File = Str_P4_EXE
  /\ req.Args = <<Str_EDIT, Str_file_txt>>
  /\ checkErr = NoError

Str_perforce_dir ==
  <<"C",":","\\","P","4","\\">>

Str_bin_dir ==
  <<"/","b","i","n","/">>

BaseNames == {Str_p4, Str_notepad, Str_git}

\* the ways of writing program b: behind a directory with either
\* separator, in either letter case, with or without .exe
ProgramForms ==
  [ b \in BaseNames |->
      { d \o c \o e : d \in {<<>>, Str_perforce_dir, Str_bin_dir},
                      c \in {b, ToUpper(b)},
                      e \in {<<>>, DotExe, ToUpper(DotExe)} } ]

(* C9: matching ignores the directory prefix (with / or \), the letter
   case and one trailing .exe: every way of writing the request's program
   gets, with the same rules and arguments, the decision the helper has
   just taken; a rule notepad.exe matches the file notepad, and a rule
   notepad matches the file notepad.exe. *)
C9_ProgramFormsAgree ==
  /\ JustChecked =>
       \A b \in BaseNames :
         req.File \in ProgramForms[b] =>
           \A f \in ProgramForms[b] :
             (Check(lr, f, req.Args) = NoError) <=> (checkErr = NoError)
  /\ matchProgram(normalizeProgram(Str_notepad), Str_notepad_exe)
  /\ matchProgram(normalizeProgram(Str_notepad_exe), Str_notepad)

C9_Witness ==
  /\ Checked
  /\ lr.Loaded
  /\ Len(lr.List) > 0
  /\ req.File = Str_perforce_p4_exe
  /\ checkErr = NoError

(***************************************************************************)
(* Properties of firstPositionalArg.                                       *)
(***************************************************************************)
IsFlag(tok) == Len(tok) > 0 /\ tok[1] = "-"

HasEquals(tok) == \E i \in DOMAIN tok : tok[i] = "="

\* token i is skipped as the value of the flag before it: that flag has no
\* "=" and was itself read as a flag, not as the value of an earlier flag
RECURSIVE SkippedAsValue(_, _)
SkippedAsValue(args, i) ==
  /\ i > 1
  /\ IsFlag(args[i - 1])
  /\ ~HasEquals(args[i - 1])
  /\ ~SkippedAsValue(args, i - 1)

SkippedToken(args, i) == IsFlag(args[i]) \/ SkippedAsValue(args, i)

(* C7: scanning left to right, firstPositionalArg skips every token that
   starts with "-", and the token after a flag that has no "=" (a token
   skipped as a flag's value does not make the next one a value); it
   returns the first token not skipped, or "" when every token is skipped.
   [-c, myclient, edit, file.txt] gives edit, [--port=..., sync] gives
   sync, [-V] and [] give "". *)
C7_FirstPositionalArg ==
  scanPc = "done" =>
    /\ LET kept == {i \in DOMAIN scanArgs : ~SkippedToken(scanArgs, i)}
       IN  IF kept = {} THEN scanResult = <<>>
           ELSE scanResult = scanArgs[CHOOSE i \in kept : \A j \in kept : i <= j]
    /\ scanArgs = <<Str_dash_c, Str_myclient, Str_edit, Str_file_txt>>
         => scanResult = Str_edit
    /\ scanArgs = <<Str_port_flag, Str_sync>> => scanResult = Str_sync
    /\ scanArgs = <<Str_dash_V>> => scanResult = <<>>
    /\ scanArgs = <<>> => scanResult = <<>>

C7_Witness ==
  /\ scanPc = "done"
  /\ scanArgs = <<Str_dash_c, Str_myclient, Str_edit, Str_file_txt>>
  /\ scanResult = Str_edit

(***************************************************************************)
(* Longest-prefix selection (SpecAlias).                                   *)
(***************************************************************************)
Applied == convPc = "applied"

\* alias a's target is a prefix of the path that ends at a path boundary
MatchesPath(a) ==
  matchesAlias(ToLower(ReplaceSlashes(winPath)), normalizeTarget(a.Target))

\* the length of a's target once separators are unified and trailing ones dropped
NormLen(a) == Len(normalizeTarget(a.Target))

\* the result is the path rewritten with a's letter
UsesLetter(a) == HasPrefix(aliasResult, ToUpper(a.Letter) \o <<":">>)

\* two different entries of the table that both match the path
MatchingPairs ==
  LET m == {i \in DOMAIN aliases : MatchesPath(aliases[i])}
  IN  {pr \in m \X m : pr[1] # pr[2]}

\* C10: whenever targets T1 and T2 of the alias table both match the path at a
\* path boundary and T2 is longer than T1 once separators are unified and
\* trailing separators are stripped, applyAlias never rewrites the path with
\* T1's letter, and it rewrites it with T2's letter when no other matching
\* target is as long as T2; this holds for every order of the table and for
\* auto-detected and configured aliases alike.
C10_LongestNormalizedTargetWins ==
  Applied =>
    \A pr \in MatchingPairs :
      LET T1 == aliases[pr[1]]
          T2 == aliases[pr[2]]
      IN  NormLen(T2) > NormLen(T1) =>
            /\ ~UsesLetter(T1)
            /\ (\A k \in DOMAIN aliases :
                  k # pr[2] /\ MatchesPath(aliases[k]) => NormLen(aliases[k]) < NormLen(T2))
                 => UsesLetter(T2)

\* a configured alias placed after a shorter auto-detected one is chosen
C10_Witness ==
  /\ Applied
  /\ Len(aliases) = 2
  /\ aliases[1].Letter = Str_P
  /\ <<1, 2>> \in MatchingPairs
  /\ NormLen(aliases[2]) > NormLen(aliases[1])
  /\ UsesLetter(aliases[2])

\* C10 as stated, with the lengths of the targets as they are written in the
\* table: whenever T1 and T2 both match and T2 is longer than T1, the path is
\* never rewritten with T1's letter and is rewritten with T2's letter when T2
\* is the longest matching target.
C10_LongerTargetWins ==
  Applied =>
    \A pr \in MatchingPairs :
      LET T1 == aliases[pr[1]]
          T2 == aliases[pr[2]]
      IN  Len(T2.Target) > Len(T1.Target) =>
            /\ ~UsesLetter(T1)
            /\ (\A k \in DOMAIN aliases :
                  k # pr[2] /\ MatchesPath(aliases[k])
                    => Len(aliases[k].Target) < Len(T2.Target))
                 => UsesLetter(T2)

(***************************************************************************)
(* Boundary safety (SpecAlias).                                            *)
(***************************************************************************)
Str_c_ws_lower ==
  <<"c",":","\\","w","s">>

Str_C_ws2_ws ==
  <<"C",":","\\","w","s","2","\\","w","s">>

\* a's target, compared as applyAlias compares it, is a prefix of the path
SharesPrefix(a) ==
  HasPrefix(ToLower(ReplaceSlashes(winPath)), normalizeTarget(a.Target))

\* the path ends with a's target or has a separator right after it
AtBoundary(a) ==
  LET t == normalizeTarget(a.Target)
  IN  /\ HasPrefix(ToLower(ReplaceSlashes(winPath)), t)
      /\ (Len(winPath) = Len(t) \/ winPath[Len(t) + 1] \in Separators)

(* C11: the path is rewritten with an alias's letter only when the path
   equals that alias's target or continues with a separator right after it;
   when every alias whose target is a string prefix of the path stops short
   of such a boundary, the path is returned unchanged; target C:\ws never
   matches a path under C:\ws2. *)
C11_BoundarySafety ==
  Applied =>
    /\ \A i \in DOMAIN aliases : UsesLetter(aliases[i]) => AtBoundary(aliases[i])
    /\ (\A i \in DOMAIN aliases : ~AtBoundary(aliases[i])) => aliasResult = winPath
    /\ \A i \in DOMAIN aliases :
         ( /\ normalizeTarget(aliases[i].Target) = Str_c_ws_lower
           /\ HasPrefix(ToLower(ReplaceSlashes(winPath)), ToLower(Str_C_ws2_ws)) )
         => ~UsesLetter(aliases[i])

C11_Witness ==
  /\ Applied
  /\ aliases = <<Alias(Str_P, Str_C_ws)>>
  /\ winPath = Str_C_ws2_ws
  /\ SharesPrefix(aliases[1])
  /\ aliasResult = winPath

(***************************************************************************)
(* Case and separator invariance (SpecAlias).                              *)
(***************************************************************************)
\* a path with its letters lower-cased and its separators unified
Fold(s) == ToLower(ReplaceSlashes(s))

\* the paths that differ from p in letter case and kind of separator only
Variants ==
  [p \in WinPaths |-> {q \in WinPaths : Fold(q) = Fold(p)}]

\* the path handed to applyAlias is the folded one of its variants; every
\* variant is compared with it, hence with every other
FoldedPath == Applied /\ winPath = Fold(winPath)

\* the part of path q behind a prefix as long as the one replaced in winPath
Remainder(q) ==
  SubSeq(q, Len(winPath) - (Len(aliasResult) - 2) + 1, Len(q))

(* C12: under the same alias table, two paths that differ only in letter
   case and in / versus \ select the same alias: both are returned
   unchanged or both are rewritten with the same letter; their results are
   equal up to letter case and separator, and identical when the remainders
   behind the matched prefix differ in separators only. *)
C12_SameAliasForVariants ==
  FoldedPath =>
    \A q \in Variants[winPath] :
      LET r == applyAlias(aliases, q)
      IN  /\ (r = q) <=> (aliasResult = winPath)
          /\ Fold(r) = Fold(aliasResult)
          /\ aliasResult # winPath =>
               /\ r[1] = aliasResult[1]
               /\ ReplaceSlashes(Remainder(q)) = ReplaceSlashes(Remainder(winPath))
                    => r = aliasResult

C12_Witness ==
  /\ FoldedPath
  /\ Cardinality(Variants[winPath]) > 2
  /\ aliasResult # winPath
  /\ Len(aliasResult) > 3
  /\ \E q \in Variants[winPath] :
       /\ q # winPath
       /\ applyAlias(aliases, q) = aliasResult

\* C12 as stated: applyAlias returns the same result for any two paths that
\* differ only in letter case and in the use of / versus \.
C12_VariantsResolveIdentically ==
  FoldedPath =>
    \A q \in Variants[winPath] : applyAlias(aliases, q) = aliasResult

(***************************************************************************)
(* Idempotence of the substitution (SpecAlias).                            *)
(***************************************************************************)
\* a's target matches the result of applyAlias at a path boundary
MatchesResult(a) ==
  LET n == NormLen(a)
  IN  /\ HasPrefix(Fold(aliasResult), normalizeTarget(a.Target))
      /\ (Len(aliasResult) = n \/ aliasResult[n + 1] \in Separators)

NoAliasMatchesResult == \A i \in DOMAIN aliases : ~MatchesResult(aliases[i])

(* C13: when no alias target matches the result of applyAlias, applying
   applyAlias to that result returns it unchanged:
   applyAlias(applyAlias(p)) = applyAlias(p). *)
C13_Idempotent ==
  (Applied /\ NoAliasMatchesResult) =>
    applyAlias(aliases, aliasResult) = aliasResult

\* a rewritten path, in a table that holds a target on an alias drive which
\* the result does not reach
C13_Witness ==
  /\ Applied
  /\ aliasResult # winPath
  /\ Len(aliasResult) > 2
  /\ \E i \in DOMAIN aliases : aliases[i].Target = Str_P_ws2
  /\ NoAliasMatchesResult
  /\ applyAlias(aliases, aliasResult) = aliasResult

(***************************************************************************)
(* Shape of the result (SpecAlias).                                        *)
(***************************************************************************)
\* the path behind the normalised target of a
AfterTarget(a) == SubSeq(winPath, NormLen(a) + 1, Len(winPath))

LetterColon(a) == ToUpper(a.Letter) \o <<":">>

\* the aliases whose target matches the path at a boundary
AliasesAtBoundary == {i \in DOMAIN aliases : AtBoundary(aliases[i])}

(* C14: when no alias matches, the path is returned unchanged; when one
   matches, the result is the upper-cased letter of a matching alias, a
   colon, and the remainder of the original path behind that alias's
   normalised target with every / written as \; when the path is exactly a
   normalised target (up to case and kind of separator, nothing behind it)
   the result is the letter and the colon alone. *)
C14_ResultShapeNormalized ==
  Applied =>
    LET matching == AliasesAtBoundary
    IN  /\ matching = {} => aliasResult = winPath
        /\ matching # {} =>
             \E i \in matching :
               aliasResult = LetterColon(aliases[i]) \o ReplaceSlashes(AfterTarget(aliases[i]))
        /\ (\E i \in matching : Len(winPath) = NormLen(aliases[i])) =>
             \E i \in matching : aliasResult = LetterColon(aliases[i])

C14_Witness ==
  /\ Applied
  /\ aliases = <<Alias(Str_P, Str_C_ws)>>
  /\ winPath = Str_C_ws
  /\ aliasResult = <<"P", ":">>

\* C14 as stated: on a match the result is the letter, a colon and the
\* remainder of the original path as it stands; a path equal to an alias
\* target gives the letter and the colon alone.
C14_ResultShape ==
  Applied =>
    LET matching == AliasesAtBoundary
    IN  /\ matching = {} => aliasResult = winPath
        /\ matching # {} =>
             \E i \in matching :
               aliasResult = LetterColon(aliases[i]) \o AfterTarget(aliases[i])
        /\ (\E i \in DOMAIN aliases : winPath = aliases[i].Target) =>
             \E i \in matching : aliasResult = LetterColon(aliases[i])

(***************************************************************************)
(* The merged alias table (SpecAlias).                                     *)
(***************************************************************************)
Built == convPc \in {"built", "applied"}

\* the auto-detected drives that NewConverter takes as aliases
SubstDrives ==
  {i \in DOMAIN drives : drives[i].Type = DriveSubst /\ drives[i].Target # <<>>}

\* the targets configured for a letter, whatever the case of the key
ConfiguredTargets(letter) ==
  {configAliases[k] : k \in {c \in DOMAIN configAliases : EqualFold(c, letter)}}

(* C15: after NewConverter, no two aliases of the table have the same
   letter up to case; a letter that is both an auto-detected subst drive
   and a configured key has a configured target; every configured letter
   is in the table with a configured target and every other subst drive
   with its detected target. *)
C15_OneAliasPerLetter ==
  Built =>
    /\ \A i, j \in DOMAIN aliases :
         i # j => ~EqualFold(aliases[i].Letter, aliases[j].Letter)
    /\ \A d \in SubstDrives :
         \E i \in DOMAIN aliases :
           /\ EqualFold(aliases[i].Letter, drives[d].Letter)
           /\ IF ConfiguredTargets(drives[d].Letter) # {}
              THEN aliases[i].Target \in ConfiguredTargets(drives[d].Letter)
              ELSE aliases[i].Target = drives[d].Target
    /\ \A k \in DOMAIN configAliases :
         \E i \in DOMAIN aliases :
           /\ aliases[i].Letter = ToUpper(k)
           /\ aliases[i].Target \in ConfiguredTargets(k)

C15_Witness ==
  /\ convPc = "built"
  /\ Len(drives) = 2
  /\ drives[2] = DriveInfo(Str_P, DriveSubst, Str_C_ws)
  /\ configAliases = (Str_p_lower :> Str_C_ws_ws2)
  /\ aliases = <<Alias(Str_P, Str_C_ws_ws2)>>

(***************************************************************************)
(* Passthrough of URLs and bare command names (SpecWin).                   *)
(***************************************************************************)
\* s starts with scheme, letters compared without regard to case
StartsWithScheme(s, scheme) ==
  /\ Len(s) >= Len(scheme)
  /\ \A i \in DOMAIN scheme : ToLowerChar(s[i]) = scheme[i]

IsHttpURL(s) == StartsWithScheme(s, Str_http) \/ StartsWithScheme(s, Str_https)

\* no / or \, no leading dot, not a URL
IsBareName(s) ==
  /\ ~\E i \in DOMAIN s : s[i] = "/" \/ s[i] = "\\"
  /\ (s = <<>> \/ s[1] # ".")
  /\ ~IsHttpURL(s)

(* C16: ToWindows returns an http:// or https:// URL (scheme in any letter
   case) and a bare command name unchanged and without error, calling
   neither filepath.Abs, nor wslpath, nor applyAlias, whatever the alias
   table, preferAliases and the state of the environment. *)
C16_Passthrough ==
  (twPc = "done" /\ (IsHttpURL(twInput) \/ IsBareName(twInput))) =>
    /\ twResult.out = twInput
    /\ twResult.err = ""
    /\ twResult.calls = <<>>

C16_Witness ==
  /\ twPc = "done"
  /\ twInput = Str_url_upper
  /\ twConv.preferAliases
  /\ twConv.aliases # <<>>
  /\ ~twEnv.wslpath
  /\ twResult.out = Str_url_upper
  /\ twResult.err = ""

(***************************************************************************)
(* Freshness of the drive cache (SpecCache).                               *)
(***************************************************************************)
GetReturned == cacheGot.op = "Get"

\* the file Get found exists, parses, and is at most ttl old
FoundFresh ==
  /\ cacheGot.before.kind = "snapshot"
  /\ cacheGot.at - cacheGot.before.timestamp <= cacheTTL

(* C17: Get makes no helper round trip exactly when the cache file exists,
   parses and holds a snapshot with now - timestamp <= ttl (one hour when
   the cache was made with ttl 0), and then returns that snapshot's data;
   in every other case it makes exactly one Refresh round trip and returns
   its result.  After a Refresh that persisted its data, a Get within ttl
   of it returns that data without a round trip. *)
C17_GetUsesFreshSnapshot ==
  /\ cacheTTL \in {DefaultTTL, HalfTTL}
  /\ New(0) = 60
  /\ GetReturned =>
       /\ (cacheGot.trips = 0) <=> FoundFresh
       /\ FoundFresh => (cacheGot.data = cacheGot.before.data /\ cacheGot.err = "")
       /\ ~FoundFresh =>
            /\ cacheGot.trips = 1
            /\ IF cacheGot.helper.kind = "ok"
               THEN cacheGot.data = cacheGot.helper.data /\ cacheGot.err = ""
               ELSE cacheGot.data = NoData /\ cacheGot.err # ""
       /\ ( /\ cacheGot.persisted.kind = "snapshot"
            /\ cacheGot.at - cacheGot.persisted.timestamp <= cacheTTL )
          => (cacheGot.trips = 0 /\ cacheGot.data = cacheGot.persisted.data)

\* a Get right at the end of the hour after a Refresh wrote the snapshot
C17_Witness ==
  /\ GetReturned
  /\ cacheTTL = DefaultTTL
  /\ cacheGot.persisted.kind = "snapshot"
  /\ cacheGot.at - cacheGot.persisted.timestamp = DefaultTTL
  /\ cacheGot.trips = 0
  /\ cacheGot.data = DrivesWithSubst

(***************************************************************************)
(* Claims about launch.Run (SpecRun).                                      *)
(***************************************************************************)
Str_Q_ws2_f ==
  <<"Q",":","\\","w","s","2","\\","f",".","t","x","t">>

\* cache.Get returned an error to Run
Degraded == runCache.called /\ runCache.err # ""

\* the converter that NewConverter builds from the configured aliases alone
ConfiguredOnly(order) ==
  [aliases |-> mergeConfig(<<>>, runCfg.Drives.Aliases, order),
   preferAliases |-> runCfg.Drives.PreferAliases]

\* an environment in which os.Getwd and wslpath succeed
Working == [getwd |-> TRUE, wslpath |-> TRUE]

\* Run has built the launch request
RequestBuilt == runPc = "built" \/ (runPc = "done" /\ runReq # ZeroRequest)

\* the errors Run returns from the steps after the drive step
LaterErrors ==
  {"translating target path", "translating working directory",
   "helper exec failed", "helper failed", "decoding response", "host helper"}

\* the last invocation of the helper carried the launch request
RequestSent ==
  /\ runHelper # <<>>
  /\ runHelper[Len(runHelper)] \in {"--launch", "--exec"}

C19_WorkDirFailureNeverFatal ==
  /\ runOut.err # "translating working directory"
  /\ (runOut.returned /\ runOut.detail \in {"abs", "wslpath"})
       => runOut.err = "translating target path"

\* Version makes checkHelperVersion query the helper
Gated == runVersion # Str_empty /\ runVersion # Str_dev

VersionErrors == {"querying host helper version", "version mismatch"}

\* checkHelperVersion has returned
VersionStepDone == runHostVersion.query # "none"

\* C20: the version gate of Run.  When Version is neither empty nor "dev",
\* Run goes past checkHelperVersion only if the helper reported exactly
\* Version; when the query fails or the helper reports another version Run
\* returns that error and the helper has been invoked with --version only,
\* never with --drives, --launch or --exec, and no request is built.  When
\* Version is empty or "dev" the helper is never invoked with --version and
\* Run returns no version error.
C20_VersionGate ==
  /\ (Gated /\ VersionStepDone /\ runOut.err \notin VersionErrors)
       => /\ runHostVersion = HostVersion("ok", runVersion)
          /\ runHelper # <<>>
          /\ runHelper[1] = "--version"
  /\ (Gated /\ runHostVersion.query = "failed")
       => /\ runOut.returned
          /\ runOut.err = "querying host helper version"
  /\ (Gated /\ runHostVersion.query = "ok" /\ runHostVersion.version # runVersion)
       => /\ runOut.returned
          /\ runOut.err = "version mismatch"
  /\ runOut.err \in VersionErrors
       => /\ Gated
          /\ runHelper = <<"--version">>
          /\ runReq = ZeroRequest
          /\ runCache = NoCacheGet
  /\ ~Gated
       => /\ \A i \in DOMAIN runHelper : runHelper[i] # "--version"
          /\ runHostVersion.query \in {"none", "skipped"}
          /\ runOut.err \notin VersionErrors
          /\ runPc = "loadConfig" => ~runOut.returned

\* C20 witness: Version is 1.0, the helper reported 1.1 and Run returned
\* the mismatch
C20_Witness ==
  /\ runVersion = Str_v10
  /\ runHostVersion = HostVersion("ok", TrimSpace(Str_v11_line))
  /\ runOut.returned
  /\ runOut.err = "version mismatch"
  /\ runHelper = <<"--version">>

\* the verb of the request: the CLI's, else the configured default
EffectiveVerb ==
  IF runOpts.Verb = "" THEN runCfg.Defaults.Verb ELSE runOpts.Verb

\* the invocations of the helper that carry the launch request
LaunchInvocations ==
  {i \in DOMAIN runHelper : runHelper[i] \in {"--launch", "--exec"}}

\* Run has returned from the invocation step
Invoked == runPc = "done" /\ RequestBuilt /\ ~runOpts.DryRun

\* C21: mode selection is a function of the effective verb and wait only.
\* A run without DryRun that has gone through the invocation step has
\* invoked the helper exactly once for the launch, as its last invocation:
\* with --exec if and only if wait is set and the effective verb is "open"
\* or empty, with --launch otherwise; before that step the helper has not
\* been invoked for the launch at all.
C21_ModeSelection ==
  /\ Invoked
       => /\ Cardinality(LaunchInvocations) = 1
          /\ LaunchInvocations = {Len(runHelper)}
          /\ runHelper[Len(runHelper)] =
               IF runOpts.Wait /\ EffectiveVerb \in {"open", ""}
               THEN "--exec" ELSE "--launch"
          /\ runReq.Verb = EffectiveVerb
  /\ ~Invoked => LaunchInvocations = {}

\* C21 witness: wait is set, the CLI gave no verb and the configured default
\* is "edit", so the helper was invoked with --launch
C21_Witness ==
  /\ Invoked
  /\ runOpts.Wait
  /\ runOpts.Verb = ""
  /\ runCfg.Defaults.Verb = "edit"
  /\ runHelper[Len(runHelper)] = "--launch"

\* C22 (as the code has it): in dry-run mode Run prints the translated
\* request and returns success instead of sending it.  With DryRun set the
\* helper is never invoked with --launch or --exec; it may still be invoked
\* with --version and --drives on the way to the request.  When the request
\* is built it is printed once, nothing else is, and Run returns a zero
\* Result with no error.  Without DryRun nothing is printed.
C22_DryRunNeverLaunches ==
  /\ runOpts.DryRun
       => /\ LaunchInvocations = {}
          /\ \A i \in DOMAIN runHelper : runHelper[i] \in {"--version", "--drives"}
          /\ (runPc = "done" /\ RequestBuilt)
               => /\ runStdout = <<runReq>>
                  /\ runOut.returned
                  /\ runOut.err = ""
                  /\ runOut.result = [ExitCode |-> 0, PID |-> 0]
          /\ ~(runPc = "done" /\ RequestBuilt) => runStdout = <<>>
  /\ ~runOpts.DryRun => runStdout = <<>>

\* C22 witness: a dry run whose cache lookup missed ran the helper with
\* --drives, printed the request for Q:\ws2\f.txt and returned
C22_Witness ==
  /\ runOpts.DryRun
  /\ runPc = "done"
  /\ runHelper = <<"--drives">>
  /\ runReq.File = Str_Q_ws2_f
  /\ runStdout = <<runReq>>
  /\ runOut.err = ""

\* C22 as stated: with DryRun set no helper process is invoked in any mode
C22_DryRunNeverInvokesHelper ==
  runOpts.DryRun => runHelper = <<>>

(***************************************************************************)
(* Claims about wstart and the helper together (SpecWstart).               *)
(***************************************************************************)
\* in --exec mode the launched process ran and has exited
ExecChildExited == stdin.mode = "exec" /\ child.state = "exited"

LaunchSucceeded ==
  /\ stdin.mode = "launch"
  /\ pc = "done"
  /\ stdout # <<>>
  /\ stdout[Len(stdout)].error = ""

\* C24: in launch mode with wait set and a successful launch of a process,
\* the helper has written its response only after that process terminated
\* and the response's exitCode is the process's exit status; with wait
\* unset the helper never waits for the launched process.
C24_WaitResponseCarriesExitStatus ==
  /\ (LaunchSucceeded /\ req.Wait /\ child.state # "none")
       => /\ child.state = "exited"
          /\ stdout[Len(stdout)].exitCode = child.code
  /\ (stdin.mode = "launch" /\ ~req.Wait) => pc # "waiting"

\* the entries of env.forward and of env.block
Forwarded == {runCfg.Env.Forward[i] : i \in DOMAIN runCfg.Env.Forward}

Blocked == {runCfg.Env.Block[i] : i \in DOMAIN runCfg.Env.Block}

\* C25: blocked environment variables are never forwarded.  No key of the
\* request's envVars equals, case-insensitively, an entry of env.block,
\* even when env.forward lists it; every key is an entry of env.forward
\* that is set in the caller's environment, and carries its value there.
C25_BlockedNeverForwarded ==
  RequestBuilt
    => \A k \in DOMAIN runReq.EnvVars :
         /\ \A b \in Blocked : ~EqualFold(k, b)
         /\ k \in Forwarded
         /\ k \in DOMAIN Environ
         /\ runReq.EnvVars[k] = Environ[k]

\* C25 witness: p4passwd and P4PORT are to be forwarded and both are set,
\* P4PASSWD is blocked, and the request carries P4PORT alone
C25_Witness ==
  /\ RequestBuilt
  /\ Str_p4passwd_lower \in Forwarded
  /\ Str_p4passwd_lower \in DOMAIN Environ
  /\ Str_P4PASSWD \in Blocked
  /\ DOMAIN runReq.EnvVars = {Str_P4PORT}

(***************************************************************************)
(* Properties of invocations racing on the cache file.                     *)
(***************************************************************************)
\* the Get of invocation p has returned
RaceReturned(p) == raceProc[p].pc = "done"

\* the Get of invocation p returned what load read from the file
RaceHit(p) == RaceReturned(p) /\ raceProc[p].trips = 0

\* C26: under every interleaving of the reads and writes of the racing
\* invocations, a Get that returns data read from the file returns the data
\* of one snapshot that one invocation wrote in full, and every other Get
\* refreshes and returns what its own helper answered, failing only when
\* its own helper failed.
C26_RacingGetNeverMixed ==
  \A p \in Procs :
    RaceReturned(p) =>
      \/ /\ RaceHit(p)
         /\ raceProc[p].err = ""
         /\ \E s \in raceWritten : s.data = raceProc[p].data
      \/ /\ raceProc[p].trips = 1
         /\ \/ raceProc[p].err = "" /\ raceProc[p].data = raceProc[p].fetched
            \/ raceProc[p].err = "running --drives"

\* a Get never fails or returns unparsed text because of the race alone
C26_RaceNeverFailsReader ==
  \A p \in Procs :
    RaceReturned(p) /\ raceProc[p].err # "" => raceProc[p].trips = 1

(***************************************************************************)
(* Properties of what Run returns from the two launch modes.               *)
(***************************************************************************)
\* Run has returned from invokeHelper, the --launch mode
LaunchReturned ==
  /\ runOut.returned
  /\ runInvoked.kind \in {"failed", "undecodable", "response"}

\* C27: in launch mode every helper-side failure surfaces as an error of
\* Run.  When the helper could not be run or exited non-zero Run returns the
\* error "helper failed"; when its output does not decode, the error
\* "decoding response" with the raw output; when the response has a
\* non-empty error field, the error "host helper" with that text and the
\* errCode.  Run returns a Result, with the exitCode and pid of the
\* response, only when the response decoded and its error field is empty.
C27_LaunchFailuresSurface ==
  LaunchReturned =>
    /\ runInvoked.kind = "failed" =>
         /\ runOut.err = "helper failed"
         /\ runOut.detail = IF runInvoked.stderr # "" THEN runInvoked.stderr
                            ELSE "exit status"
    /\ runInvoked.kind = "undecodable" =>
         runOut.err = "decoding response" /\ runOut.detail = runInvoked.raw
    /\ runInvoked.kind = "response" /\ runInvoked.resp.Error # "" =>
         /\ runOut.err = "host helper"
         /\ runOut.detail = runInvoked.resp.Error
         /\ runOut.errCode = runInvoked.resp.ErrCode
    /\ runOut.err # "" => runOut.result = NilResult
    /\ runOut.err = "" =>
         /\ runInvoked.kind = "response"
         /\ runInvoked.resp.Error = ""
         /\ runOut.result = Result(runInvoked.resp.ExitCode, runInvoked.resp.PID)

\* Run returned the error of a response that the allowlist denied
C27_Witness ==
  /\ LaunchReturned
  /\ runHelper[Len(runHelper)] = "--launch"
  /\ runInvoked.kind = "response"
  /\ runInvoked.resp.ErrCode = DeniedErrCode
  /\ runOut.err = "host helper"
  /\ runOut.errCode = DeniedErrCode

(***************************************************************************)
(* Properties of the environment of the launched process.                  *)
(***************************************************************************)
\* the helper has started a Windows process
ChildStarted == child.state # "none"

\* C28: forwarded environment variables reach the launched process in both
\* launch modes.  Whenever the helper has started a process, through Execute
\* or through ExecuteConsole, every name of the request's envVars is set in
\* the environment of that process to the value the request gives it.
C28_EnvVarsReachChild ==
  ChildStarted =>
    \A k \in DOMAIN req.EnvVars :
      k \in DOMAIN child.env /\ child.env[k] = req.EnvVars[k]

\* the same for the processes ExecuteConsole starts
C28_EnvVarsReachConsoleChild ==
  ChildStarted /\ stdin.mode = "exec" =>
    \A k \in DOMAIN req.EnvVars :
      k \in DOMAIN child.env /\ child.env[k] = req.EnvVars[k]

(***************************************************************************)
(* Properties of alias resolution across runs.                             *)
(***************************************************************************)
\* what applyAlias returns for the path when range delivers the configured
\* aliases in this order
ResolvedUnder(order) ==
  applyAlias(mergeConfig(substAliases(drives), configAliases, order), winPath)

\* two configured aliases with different letters whose targets have the same
\* normalized form
ConfiguredTie ==
  \E k1, k2 \in DOMAIN configAliases :
    /\ ToUpper(k1) # ToUpper(k2)
    /\ normalizeTarget(configAliases[k1]) = normalizeTarget(configAliases[k2])

\* C29: alias resolution is deterministic.  For the same drives, configured
\* aliases and path, NewConverter followed by applyAlias returns the same
\* result whatever order the configured aliases were appended in, ties
\* between targets of equal normalized length included.
C29_AliasResolutionDeterministic ==
  convPc = "applied" =>
    \A order \in KeyOrders(configAliases) : ResolvedUnder(order) = aliasResult

\* the same for configurations whose letters are distinct and whose targets
\* do not tie
C29_DeterministicWithoutTies ==
  /\ convPc = "applied"
  /\ ~ConfiguredTie
  /\ \A k1, k2 \in DOMAIN configAliases : ToUpper(k1) = ToUpper(k2) => k1 = k2
  => \A order \in KeyOrders(configAliases) : ResolvedUnder(order) = aliasResult

(***************************************************************************)
(* Properties of what Run returns in exec mode.                            *)
(***************************************************************************)
\* Run has returned from invokeHelperExec, the --exec mode
ExecReturned == runOut.returned /\ stdin.mode = "exec"

\* the helper exited in exec mode without starting a process and without a
\* denial: the request did not decode, or the process could not be started
ExecInternalFailure ==
  /\ stdin.mode = "exec"
  /\ pc = "done"
  /\ ~Denied
  /\ child.state = "none"

\* C30: in exec mode Run returns an error only when the helper process
\* could not be started.  For every exit status s of the helper Run returns
\* Result{ExitCode: s} and no error: 5 after a denial by the allowlist, 1
\* after a failure inside the helper, and the status of the launched process
\* otherwise, so that a denial and a launched process that exited with 5
\* give the caller the same return value.
C30_ExecErrorOnlyWhenNotStarted ==
  ExecReturned =>
    /\ runOut.err # "" <=> pc = "not started"
    /\ pc # "not started" =>
         runOut = ReturnResult(Result(LinuxExitStatus(exit[1]), 0))
    /\ Denied => runOut = ReturnResult(Result(DeniedExitStatus, 0))
    /\ ExecInternalFailure => runOut = ReturnResult(Result(1, 0))
    /\ child.state = "exited" /\ child.code \in {1, DeniedExitStatus} =>
         runOut = ReturnResult(Result(child.code, 0))

\* Run returned exit code 5 and no error after the allowlist denied the
\* request
C30_Witness ==
  /\ ExecReturned
  /\ Denied
  /\ exit = <<DeniedExitStatus>>
  /\ runOut.err = ""
  /\ runOut.result.ExitCode = DeniedExitStatus

=============================================================================
